---- MODULE Spec2Model ----
(***************************************************************************)
(* Model of app_ami_kafka: the event filter compiler (add_filter), the     *)
(* per-entry matcher (match_eventdata, filter_cmp_fn), the include/exclude *)
(* evaluator (should_send_event) and the module's configuration life       *)
(* cycle (load, reload, unload, ami_hook_callback).                        *)
(*                                                                         *)
(* C strings are TLA+ strings; a char* that may be NULL is a sequence of   *)
(* at most one string: NULL is <<>>, a pointer to "x" is <<"x">>.          *)
(* Memory allocation is taken to succeed.                                  *)
(***************************************************************************)
EXTENDS Integers, Sequences, FiniteSets, TLC

VARIABLES
    includefilters,   \* general->includefilters of the configuration being built
    excludefilters,   \* general->excludefilters of the configuration being built
    call,             \* the last call made: its name and its arguments
    ret,              \* what that call returned
    snapshots,        \* the ami_kafka_conf objects allocated so far, by number
    confs,            \* the global confs: the published snapshot, 0 for none
    pending,          \* cfg_info's pending snapshot during a load, 0 for none
    loader,           \* the thread running load_module or reload_module
    hooks,            \* the threads running ami_hook_callback
    cached_producer,  \* the global cached_producer: NULL or the producer
    registered,       \* ami_kafka_hook is registered with the manager
    loads             \* the configuration loads started so far

engineVars == <<includefilters, excludefilters, call, ret>>

moduleVars ==
    <<snapshots, confs, pending, loader, hooks, cached_producer, registered, loads>>

vars == <<engineVars, moduleVars>>

(***************************************************************************)
(* Bounds                                                                  *)
(***************************************************************************)
\* the most eventfilter lines one configuration load links into the two sets
MaxFilters == 2

\* the most configuration loads (load_module and reload_module) in one run
MaxLoads == 2

\* the manager threads that may run ami_hook_callback at the same time
MaxHooks == 1

(***************************************************************************)
(* C strings                                                               *)
(***************************************************************************)
NULL == <<>>

Ptr(s) == <<s>>

Str(p) == p[1]

\* ast_strlen_zero: a NULL pointer or an empty string
ast_strlen_zero(p) == p = NULL \/ Str(p) = ""

\* s[i - 1] in C: the character at position i, "" for the terminating NUL
CharAt(s, i) == IF i \in 1..Len(s) THEN SubSeq(s, i, i) ELSE ""

\* the text from position i to the end (the C pointer s + i - 1)
From(s, i) == SubSeq(s, i, Len(s))

\* strstr: the position of the first occurrence of needle, 0 for NULL
strstr(s, needle) ==
    LET hits == {i \in 1..(Len(s) - Len(needle) + 1) :
                    SubSeq(s, i, i + Len(needle) - 1) = needle}
    IN  IF hits = {} THEN 0 ELSE CHOOSE i \in hits : \A j \in hits : i <= j

\* strncmp(s, lit, n) == 0 for a literal of exactly n characters
strncmp0(s, lit, n) == Len(s) >= n /\ SubSeq(s, 1, n) = lit

ast_begins_with(s, prefix) ==
    Len(s) >= Len(prefix) /\ SubSeq(s, 1, Len(prefix)) = prefix

ast_ends_with(s, suffix) ==
    Len(s) >= Len(suffix) /\ From(s, Len(s) - Len(suffix) + 1) = suffix

\* characters below 33: what ast_skip_blanks and ast_trim_blanks remove
IsBlank(c) == c \in {" ", "\t", "\r", "\n"}

RECURSIVE ast_skip_blanks(_)
ast_skip_blanks(s) ==
    IF s # "" /\ IsBlank(CharAt(s, 1)) THEN ast_skip_blanks(From(s, 2)) ELSE s

RECURSIVE ast_trim_blanks(_)
ast_trim_blanks(s) ==
    IF s # "" /\ IsBlank(CharAt(s, Len(s)))
    THEN ast_trim_blanks(SubSeq(s, 1, Len(s) - 1))
    ELSE s

\* ast_strip(p) called for its effect on the buffer, the returned pointer
\* dropped: the blanks after the last non-blank are cut, leading blanks
\* stay, and a buffer of blanks only is left as it is
ast_strip_buffer(s) ==
    IF ast_skip_blanks(s) = "" THEN s ELSE ast_trim_blanks(s)

\* strtok_r over the whole buffer: the tokens between the delimiters
RECURSIVE strtok_r(_, _, _)
strtok_r(s, delims, cur) ==
    IF s = ""
    THEN IF cur = "" THEN <<>> ELSE <<cur>>
    ELSE IF CharAt(s, 1) \in delims
         THEN IF cur = ""
              THEN strtok_r(From(s, 2), delims, "")
              ELSE <<cur>> \o strtok_r(From(s, 2), delims, "")
         ELSE strtok_r(From(s, 2), delims, cur \o CharAt(s, 1))

Tokens(s, delims) == strtok_r(s, delims, "")

(***************************************************************************)
(* POSIX regcomp/regexec (REG_EXTENDED | REG_NOSUB) on the fragment the    *)
(* declarations below use: ordinary characters, '.', a leading '^' and a   *)
(* trailing '$'. The patterns hold no ')', so a '(' is an unmatched group  *)
(* and regcomp rejects it.                                                 *)
(***************************************************************************)
regcomp(pattern) == IF strstr(pattern, "(") # 0 THEN 1 ELSE 0

RegexCore(pattern) ==
    LET a == IF ast_begins_with(pattern, "^") THEN From(pattern, 2) ELSE pattern
    IN  IF ast_ends_with(a, "$") THEN SubSeq(a, 1, Len(a) - 1) ELSE a

RegexAt(core, s, i) ==
    /\ i + Len(core) - 1 <= Len(s)
    /\ \A k \in 1..Len(core) :
          CharAt(core, k) = "." \/ CharAt(core, k) = CharAt(s, i + k - 1)

\* 0 when the pattern matches somewhere in s, 1 (REG_NOMATCH) otherwise
regexec(pattern, s) ==
    LET core   == RegexCore(pattern)
        starts == IF ast_begins_with(pattern, "^") THEN {1} ELSE 1..(Len(s) + 1)
    IN  IF \E i \in starts :
              /\ RegexAt(core, s, i)
              /\ ast_ends_with(pattern, "$") => i + Len(core) - 1 = Len(s)
        THEN 0 ELSE 1

(***************************************************************************)
(* enum event_filter_match_type and struct event_filter_entry              *)
(***************************************************************************)
FILTER_MATCH_REGEX == 0

FILTER_MATCH_EXACT == 1

FILTER_MATCH_STARTS_WITH == 2

FILTER_MATCH_ENDS_WITH == 3

FILTER_MATCH_CONTAINS == 4

FILTER_MATCH_NONE == 5

\* a freshly allocated entry: ao2_alloc zeroes it, so match_type is 0
\* (FILTER_MATCH_REGEX) and every pointer is NULL. regex_filter holds the
\* source of the compiled pattern.
event_filter_entry ==
    [match_type    |-> FILTER_MATCH_REGEX,
     regex_filter  |-> NULL,
     string_filter |-> NULL,
     event_name    |-> NULL,
     header_name   |-> NULL]

(***************************************************************************)
(* add_filter: the option loop of the advanced syntax                      *)
(***************************************************************************)
ACTION_FOUND == "ACTION_FOUND"

NAME_FOUND == "NAME_FOUND"

HEADER_FOUND == "HEADER_FOUND"

METHOD_FOUND == "METHOD_FOUND"

\* char *val = strstr(option, "("): NULL, or the text from the parenthesis on
OptionVal(option) ==
    LET p == strstr(option, "(")
    IN  IF p = 0 THEN NULL ELSE Ptr(From(option, p))

\* val++; ast_strip(val);
OptionArg(val) == ast_strip_buffer(From(Str(val), 2))

\* the method(...) values the strcmp chain knows
MethodNames ==
    {"regex", "exact", "starts_with", "ends_with", "contains", "none"}

MethodType(val) ==
    CASE val = "regex"       -> FILTER_MATCH_REGEX
      [] val = "exact"       -> FILTER_MATCH_EXACT
      [] val = "starts_with" -> FILTER_MATCH_STARTS_WITH
      [] val = "ends_with"   -> FILTER_MATCH_ENDS_WITH
      [] val = "contains"    -> FILTER_MATCH_CONTAINS
      [] OTHER               -> FILTER_MATCH_NONE

\* Variant of ParseStart that leaves match_type as ao2_alloc zeroed it.
ParseStart_zeroed(is_exclude) ==
    [failed        |-> FALSE,
     is_exclude    |-> is_exclude,
     options_found |-> {},
     entry         |-> event_filter_entry]

\* the locals of add_filter that the option loop reads and writes; failed is
\* set where the code unrefs the entry and returns -1
ParseStart(is_exclude) ==
    [failed        |-> FALSE,
     is_exclude    |-> is_exclude,
     options_found |-> {},
     entry         |-> [event_filter_entry EXCEPT !.match_type = FILTER_MATCH_NONE]]

Fail(st) == [st EXCEPT !.failed = TRUE]

\* Variant of ParseAction in which action(include) leaves is_exclude as the
\* leading '!' set it.
ParseAction_keep(st, option) ==
    LET val == OptionVal(option)
    IN  IF ast_strlen_zero(val) THEN Fail(st)
        ELSE LET arg == OptionArg(val)
             IN  IF arg = "include"
                 THEN [st EXCEPT !.options_found = @ \cup {ACTION_FOUND}]
                 ELSE IF arg = "exclude"
                 THEN [st EXCEPT !.is_exclude = 1,
                                 !.options_found = @ \cup {ACTION_FOUND}]
                 ELSE Fail(st)

ParseAction(st, option) ==
    LET val == OptionVal(option)
    IN  IF ast_strlen_zero(val) THEN Fail(st)
        ELSE LET arg == OptionArg(val)
             IN  IF arg = "include"
                 THEN [st EXCEPT !.is_exclude = 0,
                                 !.options_found = @ \cup {ACTION_FOUND}]
                 ELSE IF arg = "exclude"
                 THEN [st EXCEPT !.is_exclude = 1,
                                 !.options_found = @ \cup {ACTION_FOUND}]
                 ELSE Fail(st)

\* Variant of ParseName that stores an empty name instead of failing.
ParseName_empty(st, option) ==
    LET val == OptionVal(option)
    IN  IF ast_strlen_zero(val) THEN Fail(st)
        ELSE [st EXCEPT !.entry.event_name = Ptr(OptionArg(val)),
                        !.options_found = @ \cup {NAME_FOUND}]

ParseName(st, option) ==
    LET val == OptionVal(option)
    IN  IF ast_strlen_zero(val) THEN Fail(st)
        ELSE LET arg == OptionArg(val)
             IN  IF arg = "" THEN Fail(st)
                 ELSE [st EXCEPT !.entry.event_name = Ptr(arg),
                                 !.options_found = @ \cup {NAME_FOUND}]

\* Variant of ParseHeader that stores the header name as it was written.
ParseHeader_asis(st, option) ==
    LET val == OptionVal(option)
    IN  IF ast_strlen_zero(val) THEN Fail(st)
        ELSE LET arg == OptionArg(val)
             IN  IF arg = "" THEN Fail(st)
                 ELSE [st EXCEPT !.entry.header_name = Ptr(arg),
                                 !.options_found = @ \cup {HEADER_FOUND}]

ParseHeader(st, option) ==
    LET val == OptionVal(option)
    IN  IF ast_strlen_zero(val) THEN Fail(st)
        ELSE LET arg == OptionArg(val)
             IN  IF arg = "" THEN Fail(st)
                 ELSE [st EXCEPT
                         !.entry.header_name =
                             IF ~ast_ends_with(arg, ":")
                             THEN Ptr(arg \o ":") ELSE Ptr(arg),
                         !.options_found = @ \cup {HEADER_FOUND}]

ParseMethod(st, option) ==
    LET val == OptionVal(option)
    IN  IF ast_strlen_zero(val) THEN Fail(st)
        ELSE LET arg == OptionArg(val)
             IN  IF arg \in MethodNames
                 THEN [st EXCEPT !.entry.match_type = MethodType(arg),
                                 !.options_found = @ \cup {METHOD_FOUND}]
                 ELSE Fail(st)

\* one turn of the while loop: the strncmp chain on the token
ParseOption(st, option) ==
    IF strncmp0(option, "action", 6) THEN ParseAction(st, option)
    ELSE IF strncmp0(option, "name", 4) THEN ParseName(st, option)
    ELSE IF strncmp0(option, "header", 6) THEN ParseHeader(st, option)
    ELSE IF strncmp0(option, "method", 6) THEN ParseMethod(st, option)
    ELSE Fail(st)

\* while ((option = strtok_r(temp, " ,)", &saveptr))): the loop ends at the
\* first failing option
RECURSIVE ParseOptions(_, _)
ParseOptions(st, options) ==
    IF st.failed \/ options = <<>> THEN st
    ELSE ParseOptions(ParseOption(st, Head(options)), Tail(options))

\* Variant of OptionsRejected without the "No name or header and no filter
\* pattern" check.
OptionsRejected_unconstrained(st, filter_pattern) ==
    \/ st.options_found = {}
    \/ filter_pattern = "" /\ st.entry.match_type # FILTER_MATCH_NONE
    \/ filter_pattern # "" /\ st.entry.match_type = FILTER_MATCH_NONE

\* Variant of OptionsRejected without the "method can't be 'none' with a
\* filter pattern" check.
OptionsRejected_nonepattern(st, filter_pattern) ==
    \/ st.options_found = {}
    \/ filter_pattern = "" /\ st.entry.match_type # FILTER_MATCH_NONE
    \/ /\ NAME_FOUND \notin st.options_found
       /\ HEADER_FOUND \notin st.options_found
       /\ st.entry.match_type = FILTER_MATCH_NONE

\* the checks on the parsed options, after the loop
OptionsRejected(st, filter_pattern) ==
    \/ st.options_found = {}
    \/ filter_pattern = "" /\ st.entry.match_type # FILTER_MATCH_NONE
    \/ filter_pattern # "" /\ st.entry.match_type = FILTER_MATCH_NONE
    \/ /\ NAME_FOUND \notin st.options_found
       /\ HEADER_FOUND \notin st.options_found
       /\ st.entry.match_type = FILTER_MATCH_NONE

\* if (options_start) { ... }: options_start is the position of the "("
ParseAdvanced(criteria, options_start, filter_pattern, is_exclude) ==
    LET temp == ast_strip_buffer(From(criteria, options_start + 1))
    IN  IF temp = "" \/ ~ast_ends_with(temp, ")")
        THEN Fail(ParseStart(is_exclude))
        ELSE LET st == ParseOptions(ParseStart(is_exclude),
                                    Tokens(temp, {" ", ",", ")"}))
             IN  IF st.failed \/ OptionsRejected(st, filter_pattern)
                 THEN Fail(st) ELSE st

\* "Compile the filter pattern"
CompilePattern(entry, filter_pattern) ==
    IF filter_pattern = "" THEN Ptr(entry)
    ELSE IF entry.match_type = FILTER_MATCH_REGEX
    THEN IF regcomp(filter_pattern) # 0 THEN NULL
         ELSE Ptr([entry EXCEPT !.regex_filter = Ptr(filter_pattern)])
    ELSE Ptr([entry EXCEPT !.string_filter = Ptr(filter_pattern)])

\* ao2_link on a list container: the entry goes to the end of the list
ao2_link(container, entry) == Append(container, entry)

(***************************************************************************)
(* add_filter up to the ao2_link: parsing, validation and compilation of   *)
(* one declaration. ret is 0 with the entry built and the resolved         *)
(* is_exclude, or -1 where the code unrefs the entry and returns -1.       *)
(* criteria and filter_pattern are pointers.                               *)
(***************************************************************************)
Rejected == [ret |-> -1, entry |-> event_filter_entry, is_exclude |-> 0]

\* Variant of StripBang that sets is_exclude and leaves the '!' in the pattern.
StripBang_keep(filter_pattern) ==
    [is_exclude |-> IF CharAt(filter_pattern, 1) = "!" THEN 1 ELSE 0,
     pattern    |-> filter_pattern]

\* "Leading '!' means exclude": is_exclude, and filter_pattern after the '!'
StripBang(filter_pattern) ==
    IF CharAt(filter_pattern, 1) = "!"
    THEN [is_exclude |-> 1, pattern |-> From(filter_pattern, 2)]
    ELSE [is_exclude |-> 0, pattern |-> filter_pattern]

\* Variant of LegacyWithoutPattern for a build without the check.
LegacyWithoutPattern_unchecked(options_start, pattern) == FALSE

\* "Legacy filter requires a pattern"
LegacyWithoutPattern(options_start, pattern) ==
    options_start = 0 /\ pattern = ""

compile_filter(criteria, filter_pattern) ==
    IF ast_strlen_zero(criteria) \/ filter_pattern = NULL
    THEN Rejected
    ELSE
    LET bang          == StripBang(Str(filter_pattern))
        pattern       == bang.pattern
        options_start == strstr(Str(criteria), "(")
    IN  IF LegacyWithoutPattern(options_start, pattern)
        THEN Rejected
        ELSE
        LET st == IF options_start # 0
                  THEN ParseAdvanced(Str(criteria), options_start, pattern,
                                     bang.is_exclude)
                  ELSE [ParseStart(bang.is_exclude) EXCEPT
                           !.entry.match_type = FILTER_MATCH_REGEX]
        IN  IF st.failed THEN Rejected
            ELSE
            LET compiled == CompilePattern(st.entry, pattern)
            IN  IF compiled = NULL THEN Rejected
                ELSE [ret |-> 0, entry |-> Str(compiled),
                      is_exclude |-> st.is_exclude]

(***************************************************************************)
(* match_eventdata(entry, eventdata): 1 on a match, 0 otherwise            *)
(***************************************************************************)
\* Variant of match_eventdata whose exact case compares only the first
\* strlen(string_filter) characters.
match_eventdata_prefix(entry, eventdata) ==
    CASE entry.match_type = FILTER_MATCH_REGEX ->
            IF regexec(Str(entry.regex_filter), eventdata) = 0 THEN 1 ELSE 0
      [] entry.match_type = FILTER_MATCH_STARTS_WITH ->
            IF ast_begins_with(eventdata, Str(entry.string_filter)) THEN 1 ELSE 0
      [] entry.match_type = FILTER_MATCH_ENDS_WITH ->
            IF ast_ends_with(eventdata, Str(entry.string_filter)) THEN 1 ELSE 0
      [] entry.match_type = FILTER_MATCH_CONTAINS ->
            IF strstr(eventdata, Str(entry.string_filter)) # 0 THEN 1 ELSE 0
      [] entry.match_type = FILTER_MATCH_EXACT ->
            IF ast_begins_with(eventdata, Str(entry.string_filter)) THEN 1 ELSE 0
      [] entry.match_type = FILTER_MATCH_NONE -> 1
      [] OTHER -> 0

match_eventdata(entry, eventdata) ==
    CASE entry.match_type = FILTER_MATCH_REGEX ->
            IF regexec(Str(entry.regex_filter), eventdata) = 0 THEN 1 ELSE 0
      [] entry.match_type = FILTER_MATCH_STARTS_WITH ->
            IF ast_begins_with(eventdata, Str(entry.string_filter)) THEN 1 ELSE 0
      [] entry.match_type = FILTER_MATCH_ENDS_WITH ->
            IF ast_ends_with(eventdata, Str(entry.string_filter)) THEN 1 ELSE 0
      [] entry.match_type = FILTER_MATCH_CONTAINS ->
            IF strstr(eventdata, Str(entry.string_filter)) # 0 THEN 1 ELSE 0
      [] entry.match_type = FILTER_MATCH_EXACT ->
            IF eventdata = Str(entry.string_filter) THEN 1 ELSE 0
      [] entry.match_type = FILTER_MATCH_NONE -> 1
      [] OTHER -> 0

\* Variant of HeaderSearch that decides on the first line carrying the
\* header, whatever its value.
RECURSIVE HeaderSearch_first(_, _)
HeaderSearch_first(filter_entry, lines) ==
    IF lines = <<>> THEN 0
    ELSE LET line == Head(lines)
         IN  IF line # "" /\ ast_begins_with(line, Str(filter_entry.header_name))
             THEN LET value == ast_skip_blanks(
                                 From(line, Len(Str(filter_entry.header_name)) + 1))
                  IN  IF value = "" THEN 0
                      ELSE match_eventdata(filter_entry, value)
             ELSE HeaderSearch_first(filter_entry, Tail(lines))

\* Variant of HeaderSearch that gives up at a line carrying the header
\* with an empty value.
RECURSIVE HeaderSearch_stopempty(_, _)
HeaderSearch_stopempty(filter_entry, lines) ==
    IF lines = <<>> THEN 0
    ELSE LET line == Head(lines)
         IN  IF line = "" THEN HeaderSearch_stopempty(filter_entry, Tail(lines))
             ELSE IF ast_begins_with(line, Str(filter_entry.header_name))
             THEN LET value == ast_skip_blanks(
                                 From(line, Len(Str(filter_entry.header_name)) + 1))
                  IN  IF value = "" THEN 0
                      ELSE IF match_eventdata(filter_entry, value) # 0
                      THEN 1
                      ELSE HeaderSearch_stopempty(filter_entry, Tail(lines))
             ELSE HeaderSearch_stopempty(filter_entry, Tail(lines))

\* the for loop of filter_cmp_fn over the lines of the body copy
RECURSIVE HeaderSearch(_, _)
HeaderSearch(filter_entry, lines) ==
    IF lines = <<>> THEN 0
    ELSE LET line == Head(lines)
         IN  IF line = "" THEN HeaderSearch(filter_entry, Tail(lines))
             ELSE IF ast_begins_with(line, Str(filter_entry.header_name))
             THEN LET value == ast_skip_blanks(
                                 From(line, Len(Str(filter_entry.header_name)) + 1))
                  IN  IF value = ""
                      THEN HeaderSearch(filter_entry, Tail(lines))
                      ELSE IF match_eventdata(filter_entry, value) # 0
                      THEN 1
                      ELSE HeaderSearch(filter_entry, Tail(lines))
             ELSE HeaderSearch(filter_entry, Tail(lines))

\* Variant of filter_cmp_fn without the "Check event name filter first" step.
filter_cmp_fn_anyname(filter_entry, event, body) ==
    IF filter_entry.header_name = NULL
    THEN IF body # ""
         THEN match_eventdata(filter_entry, body)
         ELSE IF filter_entry.match_type = FILTER_MATCH_NONE THEN 1 ELSE 0
    ELSE HeaderSearch(filter_entry, Tokens(body, {"\r", "\n"}))

(***************************************************************************)
(* filter_cmp_fn: the value stored in *result (match); the callback        *)
(* returns CMP_MATCH | CMP_STOP exactly when it is not 0                   *)
(***************************************************************************)
filter_cmp_fn(filter_entry, event, body) ==
    IF filter_entry.event_name # NULL /\ event # Str(filter_entry.event_name)
    THEN 0
    ELSE IF filter_entry.header_name = NULL
    THEN IF body # ""
         THEN match_eventdata(filter_entry, body)
         ELSE IF filter_entry.match_type = FILTER_MATCH_NONE THEN 1 ELSE 0
    ELSE HeaderSearch(filter_entry, Tokens(body, {"\r", "\n"}))

\* Variant of ao2_callback_data for a callback that never returns CMP_STOP:
\* the traversal visits every entry and result keeps the last entry's match.
RECURSIVE ao2_callback_data_nostop(_, _, _, _)
ao2_callback_data_nostop(container, event, body, result) ==
    IF container = <<>> THEN result
    ELSE ao2_callback_data_nostop(Tail(container), event, body,
                                  filter_cmp_fn(Head(container), event, body))

\* ao2_callback_data(container, OBJ_NODATA, filter_cmp_fn, &args, &result):
\* the callback runs on the entries in list order until one returns
\* CMP_MATCH | CMP_STOP; each run stores its match in result
RECURSIVE ao2_callback_data(_, _, _, _)
ao2_callback_data(container, event, body, result) ==
    IF container = <<>> THEN result
    ELSE LET match == filter_cmp_fn(Head(container), event, body)
         IN  IF match # 0 THEN match
             ELSE ao2_callback_data(Tail(container), event, body, match)

ao2_container_count(container) == Len(container)

\* "include only: implied exclude all, then include"
IncludeOnly(includefilters_, event, body) ==
    ao2_callback_data(includefilters_, event, body, 0)

\* Variant of ExcludeOnly that returns result instead of !result.
ExcludeOnly_result(excludefilters_, event, body) ==
    ao2_callback_data(excludefilters_, event, body, 0)

\* "exclude only: implied include all, then exclude"
ExcludeOnly(excludefilters_, event, body) ==
    IF ao2_callback_data(excludefilters_, event, body, 0) # 0 THEN 0 ELSE 1

\* Variant of IncludeThenExclude that returns once the include set matched.
IncludeThenExclude_noexclude(includefilters_, excludefilters_, event, body) ==
    IF ao2_callback_data(includefilters_, event, body, 0) # 0 THEN 1 ELSE 0

\* "Both: include first, then exclude"
IncludeThenExclude(includefilters_, excludefilters_, event, body) ==
    IF ao2_callback_data(includefilters_, event, body, 0) # 0
    THEN IF ao2_callback_data(excludefilters_, event, body, 0) # 0
         THEN 0 ELSE 1
    ELSE 0

\* Variant of should_send_event without the "no filters = send all" return.
should_send_event_nofirst(includefilters_, excludefilters_, event, body) ==
    LET num_include == ao2_container_count(includefilters_)
        num_exclude == ao2_container_count(excludefilters_)
    IN  IF num_include # 0 /\ num_exclude = 0
        THEN IncludeOnly(includefilters_, event, body)
        ELSE IF num_include = 0 /\ num_exclude # 0
        THEN ExcludeOnly(excludefilters_, event, body)
        ELSE IncludeThenExclude(includefilters_, excludefilters_, event, body)

\* the four cases of should_send_event on the counts it read
SendVerdict(num_include, num_exclude, includefilters_, excludefilters_, event, body) ==
    IF num_include = 0 /\ num_exclude = 0 THEN 1
    ELSE IF num_include # 0 /\ num_exclude = 0
    THEN IncludeOnly(includefilters_, event, body)
    ELSE IF num_include = 0 /\ num_exclude # 0
    THEN ExcludeOnly(excludefilters_, event, body)
    ELSE IncludeThenExclude(includefilters_, excludefilters_, event, body)

(***************************************************************************)
(* should_send_event: 1 to send the event, 0 to filter it out              *)
(***************************************************************************)
should_send_event(includefilters_, excludefilters_, event, body) ==
    SendVerdict(ao2_container_count(includefilters_),
                ao2_container_count(excludefilters_),
                includefilters_, excludefilters_, event, body)

(***************************************************************************)
(* The eventfilter lines of ami_kafka.conf that the model loads. A line is *)
(* written down by its parts (the options between the parentheses, the     *)
(* text around them, the value) and add_filter is given the text rendered  *)
(* from them, as eventfilter_handler gives it var->name and var->value.    *)
(***************************************************************************)
Legacy(value) ==
    [syntax |-> "legacy", name |-> "eventfilter", opts |-> <<>>,
     lead |-> "", sep |-> "", close |-> "", value |-> value]

Adv(opts, value) ==
    [syntax |-> "advanced", name |-> "eventfilter", opts |-> opts,
     lead |-> "", sep |-> ",", close |-> ")", value |-> value]

AdvText(opts, lead, sep, close, value) ==
    [syntax |-> "advanced", name |-> "eventfilter", opts |-> opts,
     lead |-> lead, sep |-> sep, close |-> close, value |-> value]

\* one option: <<"name", "Hangup">> is name(Hangup), <<"name">> is name
RenderOption(o) ==
    IF Len(o) = 1 THEN o[1] ELSE o[1] \o "(" \o o[2] \o ")"

RECURSIVE RenderOptions(_, _)
RenderOptions(opts, sep) ==
    IF opts = <<>> THEN ""
    ELSE IF Len(opts) = 1 THEN RenderOption(opts[1])
    ELSE RenderOption(opts[1]) \o sep \o RenderOptions(Tail(opts), sep)

\* var->name
Criteria(d) ==
    IF d.syntax = "legacy" THEN d.name
    ELSE d.name \o "(" \o d.lead \o RenderOptions(d.opts, d.sep) \o d.close

Declarations ==
    { Legacy(NULL), Legacy(Ptr("")), Legacy(Ptr("!")),
      Legacy(Ptr("Channel: PJSIP/")), Legacy(Ptr("!CallerIDNum: 100")),
      Legacy(Ptr("(")), Legacy(Ptr("!(")),
      Adv(<< <<"action", "include">>, <<"name", "Newchannel">> >>, Ptr("")),
      Adv(<< <<"action", "include">>, <<"name", "Newchannel">> >>, Ptr("!")),
      Adv(<< <<"action", "include">>, <<"name", "Newchannel">> >>, NULL),
      Adv(<< <<"action", "include">>, <<"name", "Newchannel">> >>, Ptr("Local/")),
      Adv(<< <<"action", "exclude">>, <<"header", "Channel">>,
             <<"method", "starts_with">> >>, Ptr("Local/")),
      Adv(<< <<"action", "exclude">>, <<"header", "Channel:">>,
             <<"method", "starts_with">> >>, Ptr("Local/")),
      Adv(<< <<"action", "exclude">>, <<"header", "Channel">>,
             <<"method", "starts_with">> >>, Ptr("")),
      Adv(<< <<"name", "Hangup">> >>, Ptr("")),
      Adv(<< <<"name", "Hangup">> >>, Ptr("!")),
      Adv(<< <<"method", "exact">>, <<"header", "Channel:">>,
             <<"action", "include">> >>, Ptr("!PJSIP/100")),
      Adv(<< <<"method", "regex">> >>, Ptr("^Channel")),
      Adv(<< <<"method", "regex">> >>, Ptr("(")),
      Adv(<< <<"method", "contains">>, <<"action", "exclude">> >>, Ptr("Local/")),
      Adv(<< <<"method", "none">>, <<"header", "Channel">> >>, Ptr("")),
      Adv(<< <<"method", "none">>, <<"name", "Hangup">> >>, Ptr("!x")),
      Adv(<< <<"action", "include">> >>, Ptr("")),
      Adv(<< <<"method", "none">> >>, Ptr("")),
      Adv(<< >>, Ptr("")),
      Adv(<< <<"foo", "bar">> >>, Ptr("")),
      Adv(<< <<"name", "">> >>, Ptr("")),
      Adv(<< <<"header", "">>, <<"method", "none">> >>, Ptr("")),
      Adv(<< <<"name">> >>, Ptr("")),
      Adv(<< <<"action", "include">>, <<"action", "exclude">>,
             <<"name", "Newchannel">> >>, Ptr("")),
      Adv(<< <<"action", "bogus">>, <<"name", "Newchannel">> >>, Ptr("")),
      Adv(<< <<"method", "bogus">>, <<"name", "Newchannel">> >>, Ptr("x")),
      Adv(<< <<"actions", "exclude">>, <<"name", "Newchannel">> >>, Ptr("")),
      Adv(<< <<"namespace", "Hangup">> >>, Ptr("")),
      AdvText(<< <<"name", "Hangup">>, <<"action", "exclude">> >>,
              " ", " , ", " )", Ptr("")),
      AdvText(<< <<"name", "Hangup">> >>, "", ",", ") x", Ptr("")),
      [Legacy(Ptr("x")) EXCEPT !.name = ""] }

\* compile_filter on every declaration of the model, computed once
Compiled ==
    [k \in {<<Ptr(Criteria(d)), d.value>> : d \in Declarations} |->
        compile_filter(k[1], k[2])]

\* the entries the declarations of the model compile to
Entries ==
    {Compiled[k].entry : k \in {x \in DOMAIN Compiled : Compiled[x].ret = 0}}

\* Variant of add_filter that links an exclude entry and then falls through
\* to the include link as well.
add_filter_fallthrough(criteria, filter_pattern, includefilters_, excludefilters_) ==
    LET c == Compiled[<<criteria, filter_pattern>>]
    IN  IF c.ret # 0
        THEN [ret |-> -1, includefilters |-> includefilters_,
              excludefilters |-> excludefilters_]
        ELSE [ret |-> 0,
              includefilters |-> ao2_link(includefilters_, c.entry),
              excludefilters |-> IF c.is_exclude # 0
                                 THEN ao2_link(excludefilters_, c.entry)
                                 ELSE excludefilters_]

(***************************************************************************)
(* add_filter(criteria, filter_pattern, includefilters, excludefilters):   *)
(* the value returned and the two containers after the call                *)
(***************************************************************************)
add_filter(criteria, filter_pattern, includefilters_, excludefilters_) ==
    LET c == Compiled[<<criteria, filter_pattern>>]
    IN  IF c.ret # 0
        THEN [ret |-> -1, includefilters |-> includefilters_,
              excludefilters |-> excludefilters_]
        ELSE IF c.is_exclude # 0
        THEN [ret |-> 0, includefilters |-> includefilters_,
              excludefilters |-> ao2_link(excludefilters_, c.entry)]
        ELSE [ret |-> 0, includefilters |-> ao2_link(includefilters_, c.entry),
              excludefilters |-> excludefilters_]

\* the events the manager delivers to the hook: name and body
Events == {"Newchannel", "Hangup", "newchannel"}

Bodies ==
    { "",
      "Channel: PJSIP/100\r\nCallerIDNum: 100\r\n",
      "Channel: PJSIP/200\r\n",
      "Channel: Local/7\r\n",
      "Channel: \r\nChannel: Local/7\r\n",
      "Privilege: call\r\n\r\nChannel:PJSIP/100\r\n",
      "channel: Local/7\r\n",
      "Channel: PJSIP/200\r\nChannel: Local/7\r\n" }

(***************************************************************************)
(* ami_body_to_json: the JSON object is the sequence of its members in     *)
(* insertion order, each <<key, value>>                                    *)
(***************************************************************************)
\* ast_eid_default as ast_eid_to_str prints it
eid_default == "00:16:3e:00:00:01"

ast_json_object_create == <<>>

\* Variant of ast_json_object_set that leaves a member it finds as it is.
ast_json_object_set_keep(json, key, value) ==
    IF \E i \in DOMAIN json : json[i][1] = key
    THEN json
    ELSE Append(json, <<key, value>>)

\* ast_json_object_set(json, key, ast_json_string_create(value)): a new
\* member goes to the end, a member with that key has its value replaced
ast_json_object_set(json, key, value) ==
    IF \E i \in DOMAIN json : json[i][1] = key
    THEN [i \in DOMAIN json |->
            IF json[i][1] = key THEN <<key, value>> ELSE json[i]]
    ELSE Append(json, <<key, value>>)

\* Variant of JsonLine that cuts the line at its last ": ".
JsonLine_lastsep(json, line) ==
    LET seps == {i \in 1..(Len(line) - 1) : SubSeq(line, i, i + 1) = ": "}
    IN  IF line = "" \/ seps = {} THEN json
        ELSE LET sep == CHOOSE i \in seps : \A j \in seps : j <= i
             IN  ast_json_object_set(json, SubSeq(line, 1, sep - 1),
                                     From(line, sep + 2))

\* the body of the for loop: one line of the body copy
JsonLine(json, line) ==
    IF ast_strlen_zero(Ptr(line)) THEN json
    ELSE LET sep == strstr(line, ": ")
         IN  IF sep = 0 THEN json
             ELSE ast_json_object_set(json, SubSeq(line, 1, sep - 1),
                                      From(line, sep + 2))

RECURSIVE JsonLines(_, _)
JsonLines(json, lines) ==
    IF lines = <<>> THEN json
    ELSE JsonLines(JsonLine(json, Head(lines)), Tail(lines))

\* Variant of ami_body_to_json that does not set the Event member.
ami_body_to_json_noevent(event, body, eid_str, system_name) ==
    LET json1 == ast_json_object_set(ast_json_object_create, "EntityID", eid_str)
        json2 == IF ~ast_strlen_zero(Ptr(system_name))
                 THEN ast_json_object_set(json1, "SystemName", system_name)
                 ELSE json1
    IN  JsonLines(json2, Tokens(body, {"\r", "\n"}))

\* eid_str is ast_eid_default as ast_eid_to_str prints it, system_name is
\* ast_config_AST_SYSTEM_NAME
ami_body_to_json(event, body, eid_str, system_name) ==
    LET json0 == ast_json_object_set(ast_json_object_create, "Event", event)
        json1 == ast_json_object_set(json0, "EntityID", eid_str)
        json2 == IF ~ast_strlen_zero(Ptr(system_name))
                 THEN ast_json_object_set(json1, "SystemName", system_name)
                 ELSE json1
    IN  JsonLines(json2, Tokens(body, {"\r", "\n"}))

(***************************************************************************)
(* The module: configuration snapshots, the loader and the manager hook    *)
(***************************************************************************)
AMI_KAFKA_FORMAT_JSON == 0

AMI_KAFKA_FORMAT_AMI == 1

\* the contents ami_kafka.conf may have when it is loaded: enabled and format
\* and the eventfilter lines of [general], connection and topic of [kafka]
ConfigFiles ==
    { [enabled |-> 1, format |-> AMI_KAFKA_FORMAT_JSON,
       filters |-> << Legacy(Ptr("Channel: PJSIP/")),
                      Legacy(Ptr("!CallerIDNum: 100")) >>,
       connection |-> "main", topic |-> "asterisk_ami"],
      [enabled |-> 1, format |-> AMI_KAFKA_FORMAT_AMI,
       filters |-> << Adv(<< <<"action", "include">>,
                             <<"name", "Newchannel">> >>, Ptr("")) >>,
       connection |-> "backup", topic |-> "events"],
      [enabled |-> 0, format |-> AMI_KAFKA_FORMAT_JSON,
       filters |-> << >>,
       connection |-> "main", topic |-> "asterisk_ami"],
      [enabled |-> 1, format |-> AMI_KAFKA_FORMAT_JSON,
       filters |-> << Legacy(Ptr("Channel: PJSIP/")), Legacy(Ptr("(")) >>,
       connection |-> "main", topic |-> "asterisk_ami"],
      [enabled |-> 1, format |-> AMI_KAFKA_FORMAT_JSON,
       filters |-> << >>,
       connection |-> "missing", topic |-> "asterisk_ami"],
      [enabled |-> 1, format |-> AMI_KAFKA_FORMAT_AMI,
       filters |-> << >>,
       connection |-> "main", topic |-> ""] }

\* the connections kafka.conf defines; a producer is named by its connection
Connections == {"main", "backup"}

ast_kafka_get_producer(connection) ==
    IF connection \in Connections THEN Ptr(connection) ELSE NULL

\* the events the manager delivers while the module is loaded
HookEvents == {"Newchannel", "Hangup"}

HookBodies == {"", "Channel: PJSIP/100\r\nCallerIDNum: 100\r\n"}

Snapshots == 1..MaxLoads

Threads == 1..MaxHooks

\* memory not allocated, or freed: conf_dtor has run and the containers and
\* their entries are destroyed
NoSnapshot(file) ==
    [alive |-> FALSE, refs |-> 0, published |-> FALSE, file |-> file,
     enabled |-> 0, format |-> AMI_KAFKA_FORMAT_JSON,
     includefilters |-> <<>>, excludefilters |-> <<>>,
     connection |-> "", topic |-> ""]

\* the same, whatever file the snapshot was built from
FreedSnapshot == NoSnapshot(CHOOSE f \in ConfigFiles : f.enabled = 0)

\* conf_alloc, conf_general_create, conf_kafka_create: a new snapshot with
\* two empty list containers, referenced once (by cfg_info's pending). The
\* options enabled, format, connection and topic are set from the file here;
\* the eventfilter lines follow, one per step.
conf_alloc(file) ==
    [alive |-> TRUE, refs |-> 1, published |-> FALSE, file |-> file,
     enabled |-> file.enabled, format |-> file.format,
     includefilters |-> <<>>, excludefilters |-> <<>>,
     connection |-> file.connection, topic |-> file.topic]

\* Variant of ao2_ref_up for a caller that keeps the bare pointer.
ao2_ref_up_none(snaps, id) == snaps

\* ao2_global_obj_ref on the snapshot the global holds: one more reference
ao2_ref_up(snaps, id) ==
    IF id = 0 THEN snaps ELSE [snaps EXCEPT ![id].refs = @ + 1]

\* ao2_cleanup / ao2_ref(-1): one reference less; at zero conf_dtor and
\* conf_general_dtor run and the containers and their entries are destroyed
ao2_cleanup(snaps, id) ==
    IF id = 0 \/ ~snaps[id].alive THEN snaps
    ELSE IF snaps[id].refs > 1
    THEN [snaps EXCEPT ![id].refs = @ - 1]
    ELSE [snaps EXCEPT ![id] = FreedSnapshot]

\* a thread outside the callback; inside it, ret is -1 until a return
\* statement is reached and then the value it returns
IdleHook ==
    [pc |-> "idle", conf |-> 0, event |-> "", body |-> "",
     num_include |-> 0, num_exclude |-> 0, verdict |-> -1, sent |-> NULL,
     system_name |-> "", ret |-> -1, producer |-> NULL]

IdleLoader == [pc |-> "idle", kind |-> "load", line |-> 1]

Init ==
    /\ includefilters = <<>>
    /\ excludefilters = <<>>
    /\ call = [name |-> "none"]
    /\ ret = 0
    /\ snapshots = [i \in Snapshots |-> FreedSnapshot]
    /\ confs = 0
    /\ pending = 0
    /\ loader = IdleLoader
    /\ hooks = [t \in Threads |-> IdleHook]
    /\ cached_producer = NULL
    /\ registered = FALSE
    /\ loads = 0

\* setup_cached_producer: the value returned and cached_producer afterwards
setup_cached_producer(snaps, conf, producer) ==
    IF conf = 0 \/ snaps[conf].connection = ""
    THEN [ret |-> -1, cached_producer |-> producer]
    ELSE LET p == ast_kafka_get_producer(snaps[conf].connection)
         IN  IF p = NULL
             THEN [ret |-> -1, cached_producer |-> producer]
             ELSE [ret |-> 0, cached_producer |-> p]

\* Variant of LoadStart whose pending snapshot starts with the entries of
\* the published one instead of empty containers.
LoadStart_accumulate(kind, file) ==
    /\ loader.pc = "idle"
    /\ loads < MaxLoads
    /\ registered <=> kind = "reload"
    /\ kind = "load" => \A t \in Threads : hooks[t].pc = "idle"
    /\ loads' = loads + 1
    /\ pending' = loads + 1
    /\ snapshots' = [snapshots EXCEPT ![loads + 1] =
          IF confs = 0 THEN conf_alloc(file)
          ELSE [conf_alloc(file) EXCEPT
                  !.includefilters = snapshots[confs].includefilters,
                  !.excludefilters = snapshots[confs].excludefilters]]
    /\ loader' = [pc |-> "options", kind |-> kind, line |-> 1]
    /\ UNCHANGED <<confs, hooks, cached_producer, registered, engineVars>>

\* load_module or reload_module enters load_config: aco_process_config
\* allocates the pending snapshot through conf_alloc
LoadStart(kind, file) ==
    /\ loader.pc = "idle"
    /\ loads < MaxLoads
    /\ registered <=> kind = "reload"
    /\ kind = "load" => \A t \in Threads : hooks[t].pc = "idle"
    /\ loads' = loads + 1
    /\ pending' = loads + 1
    /\ snapshots' = [snapshots EXCEPT ![loads + 1] = conf_alloc(file)]
    /\ loader' = [pc |-> "options", kind |-> kind, line |-> 1]
    /\ UNCHANGED <<confs, hooks, cached_producer, registered, engineVars>>

\* aco_process_config hands the next eventfilter line to eventfilter_handler,
\* which adds it to the pending snapshot's containers; a failing line ends
\* the load with ACO_PROCESS_ERROR and the pending snapshot is released
LoadOption ==
    /\ loader.pc = "options"
    /\ loader.line <= Len(snapshots[pending].file.filters)
    /\ LET s == snapshots[pending]
           d == s.file.filters[loader.line]
           r == add_filter(Ptr(Criteria(d)), d.value,
                           s.includefilters, s.excludefilters)
       IN  IF r.ret = 0
           THEN /\ snapshots' = [snapshots EXCEPT
                                   ![pending].includefilters = r.includefilters,
                                   ![pending].excludefilters = r.excludefilters]
                /\ loader' = [loader EXCEPT !.line = @ + 1]
                /\ UNCHANGED pending
           ELSE /\ snapshots' = ao2_cleanup(snapshots, pending)
                /\ pending' = 0
                /\ loader' = IdleLoader
    /\ UNCHANGED <<confs, hooks, cached_producer, registered, loads, engineVars>>

\* every line was accepted: setup_kafka passes and aco_process_config
\* publishes the pending snapshot with ao2_global_obj_replace_unref, which
\* releases the global's reference to the previous one
LoadApply ==
    /\ loader.pc = "options"
    /\ loader.line > Len(snapshots[pending].file.filters)
    /\ confs' = pending
    /\ snapshots' = [ao2_cleanup(snapshots, confs) EXCEPT ![pending].published = TRUE]
    /\ pending' = 0
    /\ loader' = [loader EXCEPT !.pc = "after"]
    /\ UNCHANGED <<hooks, cached_producer, registered, loads, engineVars>>

\* Variant of LoadModuleAfter that registers the hook although
\* setup_cached_producer failed.
LoadModuleAfter_register ==
    /\ loader.pc = "after" /\ loader.kind = "load"
    /\ LET p == setup_cached_producer(snapshots, confs, cached_producer)
       IN  IF snapshots[confs].enabled = 0
           THEN /\ snapshots' = ao2_cleanup(snapshots, confs)
                /\ confs' = 0
                /\ UNCHANGED <<cached_producer, registered>>
           ELSE /\ cached_producer' = p.cached_producer
                /\ registered' = TRUE
                /\ UNCHANGED <<snapshots, confs>>
    /\ loader' = IdleLoader
    /\ UNCHANGED <<pending, hooks, loads, engineVars>>

\* load_module after load_config(0): decline when disabled or when the
\* producer cannot be set up, releasing confs; else register the hook
LoadModuleAfter ==
    /\ loader.pc = "after" /\ loader.kind = "load"
    /\ LET p == setup_cached_producer(snapshots, confs, cached_producer)
       IN  IF snapshots[confs].enabled = 0
           THEN /\ snapshots' = ao2_cleanup(snapshots, confs)
                /\ confs' = 0
                /\ UNCHANGED <<cached_producer, registered>>
           ELSE IF p.ret # 0
           THEN /\ snapshots' = ao2_cleanup(snapshots, confs)
                /\ confs' = 0
                /\ UNCHANGED <<cached_producer, registered>>
           ELSE /\ cached_producer' = p.cached_producer
                /\ registered' = TRUE
                /\ UNCHANGED <<snapshots, confs>>
    /\ loader' = IdleLoader
    /\ UNCHANGED <<pending, hooks, loads, engineVars>>

\* reload_module after load_config(1) returned 0: setup_cached_producer,
\* its result dropped
ReloadModuleAfter ==
    /\ loader.pc = "after" /\ loader.kind = "reload"
    /\ cached_producer' =
          setup_cached_producer(snapshots, confs, cached_producer).cached_producer
    /\ loader' = IdleLoader
    /\ UNCHANGED <<snapshots, confs, pending, hooks, registered, loads, engineVars>>

\* Variant of UnloadUnregister that does not wait for the running callbacks.
UnloadUnregister_nowait ==
    /\ registered /\ loader.pc = "idle"
    /\ registered' = FALSE
    /\ loader' = [pc |-> "unload", kind |-> "unload", line |-> 1]
    /\ UNCHANGED <<snapshots, confs, pending, hooks, cached_producer, loads,
                   engineVars>>

\* unload_module: ast_manager_unregister_hook takes the write lock of the
\* hook list, which the manager holds for reading while it runs the hooks:
\* the call waits for the running callbacks and none starts after it
UnloadUnregister ==
    /\ registered /\ loader.pc = "idle"
    /\ \A t \in Threads : hooks[t].pc = "idle"
    /\ registered' = FALSE
    /\ loader' = [pc |-> "unload", kind |-> "unload", line |-> 1]
    /\ UNCHANGED <<snapshots, confs, pending, hooks, cached_producer, loads,
                   engineVars>>

\* unload_module after the hook is gone: ao2_global_obj_release of
\* cached_producer, aco_info_destroy, ao2_global_obj_release of confs
UnloadRelease ==
    /\ loader.pc = "unload"
    /\ cached_producer' = NULL
    /\ snapshots' = ao2_cleanup(snapshots, confs)
    /\ confs' = 0
    /\ loader' = IdleLoader
    /\ UNCHANGED <<pending, hooks, registered, loads, engineVars>>

\* ami_hook_callback is entered: conf = ao2_global_obj_ref(confs)
HookRef(t, event, body) ==
    /\ registered /\ hooks[t].pc = "idle"
    /\ hooks' = [hooks EXCEPT ![t] = [IdleHook EXCEPT !.pc = "check",
                    !.conf = confs, !.event = event, !.body = body]]
    /\ snapshots' = ao2_ref_up(snapshots, confs)
    /\ UNCHANGED <<confs, pending, loader, cached_producer, registered, loads, engineVars>>

\* Variant of HookCheck that goes on when the snapshot is disabled.
HookCheck_noenabled(t) ==
    /\ hooks[t].pc = "check"
    /\ hooks' = [hooks EXCEPT ![t] =
                    IF hooks[t].conf = 0
                    THEN [hooks[t] EXCEPT !.pc = "cleanup", !.ret = 0]
                    ELSE [hooks[t] EXCEPT !.pc = "count"]]
    /\ UNCHANGED <<snapshots, confs, pending, loader, cached_producer,
                   registered, loads, engineVars>>

\* if (!conf || !conf->general || !conf->general->enabled) return 0;
HookCheck(t) ==
    /\ hooks[t].pc = "check"
    /\ hooks' = [hooks EXCEPT ![t] =
                    IF hooks[t].conf = 0 \/ snapshots[hooks[t].conf].enabled = 0
                    THEN [hooks[t] EXCEPT !.pc = "cleanup", !.ret = 0]
                    ELSE [hooks[t] EXCEPT !.pc = "count"]]
    /\ UNCHANGED <<snapshots, confs, pending, loader, cached_producer,
                   registered, loads, engineVars>>

\* should_send_event reads the two container counts
HookCount(t) ==
    /\ hooks[t].pc = "count"
    /\ hooks' = [hooks EXCEPT
          ![t].pc = "traverse",
          ![t].num_include =
              ao2_container_count(snapshots[hooks[t].conf].includefilters),
          ![t].num_exclude =
              ao2_container_count(snapshots[hooks[t].conf].excludefilters)]
    /\ UNCHANGED <<snapshots, confs, pending, loader, cached_producer,
                   registered, loads, engineVars>>

\* if (!should_send_event(...)) return 0;
AfterVerdict(h, verdict) ==
    [h EXCEPT !.verdict = verdict,
              !.pc = IF verdict = 0 THEN "cleanup" ELSE "produce",
              !.ret = IF verdict = 0 THEN 0 ELSE -1]

\* should_send_event traverses the containers and returns its verdict
HookTraverse(t) ==
    /\ hooks[t].pc = "traverse"
    /\ hooks' = [hooks EXCEPT ![t] =
          AfterVerdict(hooks[t],
              SendVerdict(hooks[t].num_include, hooks[t].num_exclude,
                          snapshots[hooks[t].conf].includefilters,
                          snapshots[hooks[t].conf].excludefilters,
                          hooks[t].event, hooks[t].body))]
    /\ UNCHANGED <<snapshots, confs, pending, loader, cached_producer,
                   registered, loads, engineVars>>

\* ast_json_dump_string: the members in insertion order, compact. The
\* texts of the model hold no character that JSON escapes.
RECURSIVE JsonMembers(_)
JsonMembers(json) ==
    IF json = <<>> THEN ""
    ELSE "\"" \o json[1][1] \o "\":\"" \o json[1][2] \o "\""
         \o (IF Len(json) = 1 THEN "" ELSE ",") \o JsonMembers(Tail(json))

ast_json_dump_string(json) == "{" \o JsonMembers(json) \o "}"

\* ast_config_AST_SYSTEM_NAME of the running system
ast_config_AST_SYSTEM_NAME == "pbx1"

\* the system names asterisk.conf may configure: none, or a name
SystemNames == {"", ast_config_AST_SYSTEM_NAME}

\* Variant of AmiPayload that writes the SystemName line whatever the name.
AmiPayload_always(body, eid_str, system_name) ==
    "EntityID: " \o eid_str \o "\r\n"
    \o "SystemName: " \o system_name \o "\r\n"
    \o body

\* "AMI format: prepend system identification headers"
AmiPayload(body, eid_str, system_name) ==
    "EntityID: " \o eid_str \o "\r\n"
    \o (IF ~ast_strlen_zero(Ptr(system_name))
        THEN "SystemName: " \o system_name \o "\r\n" ELSE "")
    \o body

\* payload as ami_hook_callback builds it for the snapshot's format
Payload(format, event, body, system_name) ==
    IF format = AMI_KAFKA_FORMAT_JSON
    THEN ast_json_dump_string(
             ami_body_to_json(event, body, eid_default, system_name))
    ELSE AmiPayload(body, eid_default, system_name)

\* what ast_kafka_produce may return: 0 on success, -1 on failure
ProduceResults == {0, -1}

\* Variant of Produce that passes NULL as the message key.
Produce_nokey(h, s, producer, system_name, res) ==
    IF ast_strlen_zero(Ptr(s.topic)) \/ producer = NULL THEN h.sent
    ELSE Append(h.sent,
                [producer |-> Str(producer), topic |-> s.topic, key |-> NULL,
                 payload |-> Payload(s.format, h.event, h.body, system_name),
                 len |-> Len(Payload(s.format, h.event, h.body, system_name)),
                 res |-> res])

\* the rest of ami_hook_callback after a send verdict: the calls of
\* ast_kafka_produce this callback has made, in order, each with the value
\* it returned (res), which the callback does not read. Nothing is produced
\* when the topic is empty or no producer is cached.
Produce(h, s, producer, system_name, res) ==
    IF ast_strlen_zero(Ptr(s.topic)) \/ producer = NULL THEN h.sent
    ELSE Append(h.sent,
                [producer |-> Str(producer), topic |-> s.topic,
                 key |-> Ptr(h.event),
                 payload |-> Payload(s.format, h.event, h.body, system_name),
                 len |-> Len(Payload(s.format, h.event, h.body, system_name)),
                 res |-> res])

\* the topic check and producer = ao2_global_obj_ref(cached_producer): the
\* global is read once, into the callback's local; return 0 on an empty
\* topic or a NULL producer
HookFetch(t) ==
    /\ hooks[t].pc = "produce"
    /\ hooks' = [hooks EXCEPT ![t] =
          IF ast_strlen_zero(Ptr(snapshots[hooks[t].conf].topic))
          THEN [hooks[t] EXCEPT !.pc = "cleanup", !.ret = 0]
          ELSE [hooks[t] EXCEPT !.producer = cached_producer,
                                !.pc = IF cached_producer = NULL THEN "cleanup"
                                       ELSE "send",
                                !.ret = IF cached_producer = NULL THEN 0 ELSE -1]]
    /\ UNCHANGED <<snapshots, confs, pending, loader, cached_producer,
                   registered, loads, engineVars>>

\* the payload and ast_kafka_produce(producer, topic, event, payload, len)
\* with ast_config_AST_SYSTEM_NAME as the running system has it
HookProduce(t) ==
    /\ hooks[t].pc = "send"
    /\ \E system_name \in SystemNames, res \in ProduceResults :
          hooks' = [hooks EXCEPT
            ![t] = [hooks[t] EXCEPT
                      !.pc = "cleanup",
                      !.ret = 0,
                      !.system_name = system_name,
                      !.sent = Produce(hooks[t], snapshots[hooks[t].conf],
                                       hooks[t].producer, system_name, res)]]
    /\ UNCHANGED <<snapshots, confs, pending, loader, cached_producer,
                   registered, loads, engineVars>>

\* return 0: RAII_VAR's ao2_cleanup(conf); the locals of the call are gone
HookReturn(t) ==
    /\ hooks[t].pc = "cleanup"
    /\ snapshots' = ao2_cleanup(snapshots, hooks[t].conf)
    /\ hooks' = [hooks EXCEPT ![t] = IdleHook]
    /\ UNCHANGED <<confs, pending, loader, cached_producer, registered, loads, engineVars>>

load_module == \E file \in ConfigFiles : LoadStart("load", file)

reload_module == \E file \in ConfigFiles : LoadStart("reload", file)

unload_module == UnloadUnregister \/ UnloadRelease

ami_hook_callback ==
    \E t \in Threads :
        \/ \E event \in HookEvents, body \in HookBodies : HookRef(t, event, body)
        \/ HookCheck(t)
        \/ HookCount(t)
        \/ HookTraverse(t)
        \/ HookFetch(t)
        \/ HookProduce(t)
        \/ HookReturn(t)

ModuleNext ==
    \/ load_module
    \/ reload_module
    \/ LoadOption
    \/ LoadApply
    \/ LoadModuleAfter
    \/ ReloadModuleAfter
    \/ unload_module
    \/ ami_hook_callback

SpecModule == Init /\ [][ModuleNext]_vars

(***************************************************************************)
(* The filter engine: a configuration load hands the eventfilter lines to  *)
(* add_filter one by one, and events are evaluated against the two sets.   *)
(***************************************************************************)
\* eventfilter_handler: add_filter(var->name, var->value, ...)
eventfilter_handler(d) ==
    LET r == add_filter(Ptr(Criteria(d)), d.value, includefilters, excludefilters)
    IN  /\ r.ret = 0 => Len(includefilters) + Len(excludefilters) < MaxFilters
        /\ includefilters' = r.includefilters
        /\ excludefilters' = r.excludefilters
        /\ call' = [name |-> "add_filter", decl |-> d]
        /\ ret' = r.ret
        /\ UNCHANGED moduleVars

AddFilter == \E d \in Declarations : eventfilter_handler(d)

Evaluate ==
    \E event \in Events, body \in Bodies :
        /\ call' = [name |-> "should_send_event", event |-> event, body |-> body]
        /\ ret' = should_send_event(includefilters, excludefilters, event, body)
        /\ UNCHANGED <<includefilters, excludefilters>>
        /\ UNCHANGED moduleVars

Next == AddFilter \/ Evaluate

Spec == Init /\ [][Next]_vars

(***************************************************************************)
(* Properties of the evaluator                                             *)
(***************************************************************************)
Evaluated == call.name = "should_send_event"

\* some entry of the container matches the event
AnyMatch(container, event, body) ==
    \E i \in DOMAIN container : filter_cmp_fn(container[i], event, body) # 0

\* C1: with both filter sets empty should_send_event returns 1 (send) for
\* every event name and every body, the empty body included.
C1_NoFiltersSendAll ==
    (Evaluated /\ includefilters = <<>> /\ excludefilters = <<>>) => ret = 1

C1_Witness ==
    /\ Evaluated /\ call.body = ""
    /\ includefilters = <<>> /\ excludefilters = <<>>
    /\ ret = 1

\* C2: with a non-empty include set and an empty exclude set
\* should_send_event returns 1 exactly when at least one include entry
\* matches the event, for any number and order of entries.
C2_IncludeOnlyAnyMatch ==
    (Evaluated /\ includefilters # <<>> /\ excludefilters = <<>>) =>
        (ret = 1 <=> AnyMatch(includefilters, call.event, call.body))

\* two include entries, the first matching and the second not
C2_Witness ==
    /\ Evaluated /\ excludefilters = <<>> /\ Len(includefilters) = 2
    /\ filter_cmp_fn(includefilters[1], call.event, call.body) # 0
    /\ filter_cmp_fn(includefilters[2], call.event, call.body) = 0
    /\ ret = 1

\* C3: with an empty include set and a non-empty exclude set
\* should_send_event returns 1 exactly when no exclude entry matches the
\* event, for any number and order of entries.
C3_ExcludeOnlyNoMatch ==
    (Evaluated /\ includefilters = <<>> /\ excludefilters # <<>>) =>
        (ret = 1 <=> ~AnyMatch(excludefilters, call.event, call.body))

\* two exclude entries, only the second matching: the event is dropped
C3_Witness ==
    /\ Evaluated /\ includefilters = <<>> /\ Len(excludefilters) = 2
    /\ filter_cmp_fn(excludefilters[1], call.event, call.body) = 0
    /\ filter_cmp_fn(excludefilters[2], call.event, call.body) # 0
    /\ ret = 0

\* C4: with both sets non-empty should_send_event returns 1 exactly when
\* some include entry matches and no exclude entry matches; an event that
\* matches both is dropped, and so is one that matches no include entry,
\* whatever the exclude set says.
C4_IncludeAndNotExclude ==
    (Evaluated /\ includefilters # <<>> /\ excludefilters # <<>>) =>
        (ret = 1 <=> /\ AnyMatch(includefilters, call.event, call.body)
                     /\ ~AnyMatch(excludefilters, call.event, call.body))

\* an event matching an include entry and an exclude entry is dropped
C4_Witness ==
    /\ Evaluated /\ includefilters # <<>> /\ excludefilters # <<>>
    /\ AnyMatch(includefilters, call.event, call.body)
    /\ AnyMatch(excludefilters, call.event, call.body)
    /\ ret = 0

(***************************************************************************)
(* Reload against the running callbacks (specification SpecModule).        *)
(***************************************************************************)
\* the two sets after the first n eventfilter lines of a file went through
\* eventfilter_handler, starting from the empty containers of conf_alloc
RECURSIVE LinesApplied(_, _)
LinesApplied(filters, n) ==
    IF n = 0
    THEN [ret |-> 0, includefilters |-> <<>>, excludefilters |-> <<>>]
    ELSE LET before == LinesApplied(filters, n - 1)
             d == filters[n]
         IN  IF before.ret # 0 THEN before
             ELSE add_filter(Ptr(Criteria(d)), d.value,
                             before.includefilters, before.excludefilters)

\* the fully built sets of each file
FullyBuilt ==
    [file \in ConfigFiles |-> LinesApplied(file.filters, Len(file.filters))]

\* thread t is inside ami_hook_callback and holds a snapshot
Holding(t) == hooks[t].conf # 0

\* C5: whatever reload_module does meanwhile, the snapshot a callback holds
\* is alive (none of its entries destroyed), was published (never one still
\* being populated), both its sets are the fully built sets of one and the
\* same configuration file, and the counts read and the verdict returned
\* are those of evaluating against exactly these two sets.
C5_PublishByReplace ==
    \A t \in Threads :
        Holding(t) =>
            /\ snapshots[hooks[t].conf].alive
            /\ snapshots[hooks[t].conf].refs >= 1
            /\ snapshots[hooks[t].conf].published
            /\ FullyBuilt[snapshots[hooks[t].conf].file].ret = 0
            /\ snapshots[hooks[t].conf].includefilters =
                  FullyBuilt[snapshots[hooks[t].conf].file].includefilters
            /\ snapshots[hooks[t].conf].excludefilters =
                  FullyBuilt[snapshots[hooks[t].conf].file].excludefilters
            /\ hooks[t].pc = "traverse" =>
                  /\ hooks[t].num_include =
                        Len(FullyBuilt[snapshots[hooks[t].conf].file].includefilters)
                  /\ hooks[t].num_exclude =
                        Len(FullyBuilt[snapshots[hooks[t].conf].file].excludefilters)
            /\ hooks[t].verdict # -1 =>
                  hooks[t].verdict =
                      should_send_event(
                          FullyBuilt[snapshots[hooks[t].conf].file].includefilters,
                          FullyBuilt[snapshots[hooks[t].conf].file].excludefilters,
                          hooks[t].event, hooks[t].body)

\* a callback has evaluated its event against the old snapshot, which only
\* it still references, after a reload published a new one with other sets
C5_Witness ==
    \E t \in Threads :
        /\ Holding(t) /\ confs # 0 /\ hooks[t].conf # confs
        /\ hooks[t].verdict # -1
        /\ snapshots[hooks[t].conf].refs = 1
        /\ snapshots[hooks[t].conf].includefilters # <<>>
        /\ snapshots[confs].includefilters # snapshots[hooks[t].conf].includefilters

(***************************************************************************)
(* Properties of the compiler. A step with call'.name = "add_filter" is    *)
(* one add_filter call: the unprimed sets are the sets before the call,    *)
(* the primed ones the sets after it.                                      *)
(***************************************************************************)
AddStep == call'.name = "add_filter"

Added == call.name = "add_filter"

\* the container holds exactly one more entry, after the ones it held
GrewByOne(before, after) ==
    Len(after) = Len(before) + 1 /\ SubSeq(after, 1, Len(before)) = before

ToInclude ==
    GrewByOne(includefilters, includefilters') /\ excludefilters' = excludefilters

ToExclude ==
    GrewByOne(excludefilters, excludefilters') /\ includefilters' = includefilters

NoEntryAdded ==
    includefilters' = includefilters /\ excludefilters' = excludefilters

Last(container) == container[Len(container)]

\* the declaration value after one leading '!' is removed
AfterBang(value) == IF ast_begins_with(value, "!") THEN From(value, 2) ELSE value

\* C6: an add_filter call either returns 0 and adds exactly one entry to
\* exactly one set (the exclude set if the resolved is_exclude is set, else
\* the include set) leaving the other set as it was, or returns -1 and
\* leaves both sets with exactly the entries they held before.
C6_AddFilterEffect ==
    [][AddStep =>
        LET c == Compiled[<<Ptr(Criteria(call'.decl)), call'.decl.value>>]
        IN  \/ ret' = 0 /\ c.ret = 0 /\ c.is_exclude # 0 /\ ToExclude
            \/ ret' = 0 /\ c.ret = 0 /\ c.is_exclude = 0 /\ ToInclude
            \/ ret' = -1 /\ NoEntryAdded]_vars

\* a failing declaration after two that compiled, one into each set
C6_Witness ==
    /\ Added /\ ret = -1
    /\ Len(includefilters) = 1 /\ Len(excludefilters) = 1

\* the pattern an entry holds: the compiled regex or the literal text
HasPattern(entry) ==
    IF entry.match_type = FILTER_MATCH_REGEX
    THEN entry.regex_filter # NULL /\ Str(entry.regex_filter) # ""
    ELSE entry.string_filter # NULL /\ Str(entry.string_filter) # ""

EntryInvariant(entry) ==
    IF entry.match_type # FILTER_MATCH_NONE
    THEN HasPattern(entry)
    ELSE /\ entry.regex_filter = NULL /\ entry.string_filter = NULL
         /\ entry.event_name # NULL \/ entry.header_name # NULL

\* C7: every entry of the include set and of the exclude set has a
\* non-empty pattern if its match type is not none, and if it is none has
\* no pattern and an event_name or a header_name.
C7_EntryInvariant ==
    /\ \A i \in DOMAIN includefilters : EntryInvariant(includefilters[i])
    /\ \A i \in DOMAIN excludefilters : EntryInvariant(excludefilters[i])

\* an entry of type none and an entry with a pattern, after a failing call
C7_Witness ==
    /\ Added /\ ret = -1
    /\ \E i \in DOMAIN includefilters :
          includefilters[i].match_type = FILTER_MATCH_NONE
    /\ \E i \in DOMAIN excludefilters :
          excludefilters[i].match_type # FILTER_MATCH_NONE

\* C8: add_filter returns -1 and adds no entry when the value is NULL,
\* legacy or advanced, and when a legacy declaration's pattern is empty
\* once one leading '!' is removed ("" and "!").
C8_NullOrEmptyLegacyRejected ==
    [][(/\ AddStep
        /\ \/ call'.decl.value = NULL
           \/ /\ call'.decl.syntax = "legacy"
              /\ AfterBang(Str(call'.decl.value)) = "")
       => (ret' = -1 /\ NoEntryAdded)]_vars

\* an advanced declaration with a NULL value, after entries were added
C8_Witness ==
    /\ Added /\ call.decl.syntax = "advanced" /\ call.decl.value = NULL
    /\ ret = -1 /\ includefilters # <<>>

\* a legacy declaration with a pattern left after the '!'
LegacyWithPattern(d) ==
    /\ d.syntax = "legacy" /\ d.name # ""
    /\ d.value # NULL /\ AfterBang(Str(d.value)) # ""

\* the entry a legacy declaration compiles to
LegacyEntry(d) ==
    [event_filter_entry EXCEPT !.match_type = FILTER_MATCH_REGEX,
                               !.regex_filter = Ptr(AfterBang(Str(d.value)))]

LegacyLinked(d) ==
    /\ ret' = 0
    /\ IF ast_begins_with(Str(d.value), "!")
       THEN /\ excludefilters' = Append(excludefilters, LegacyEntry(d))
            /\ includefilters' = includefilters
       ELSE /\ includefilters' = Append(includefilters, LegacyEntry(d))
            /\ excludefilters' = excludefilters

\* C9 as stated: every legacy declaration with a non-empty pattern compiles
\* to exactly one regex entry without event_name and header_name, in the
\* exclude set if the value begins with '!' (removed from the pattern) and
\* in the include set otherwise, the other set unchanged.
C9_LegacyAlwaysCompiles ==
    [][(AddStep /\ LegacyWithPattern(call'.decl)) => LegacyLinked(call'.decl)]_vars

\* C9 amended: that holds of the legacy declarations whose pattern regcomp
\* accepts; one whose pattern regcomp rejects returns -1 and adds no entry.
C9_LegacyCompilesIfRegexValid ==
    [][(AddStep /\ LegacyWithPattern(call'.decl)) =>
        IF regcomp(AfterBang(Str(call'.decl.value))) = 0
        THEN LegacyLinked(call'.decl)
        ELSE ret' = -1 /\ NoEntryAdded]_vars

\* "!CallerIDNum: 100" has put the regex "CallerIDNum: 100" in the exclude set
C9_Witness ==
    /\ Added /\ call.decl = Legacy(Ptr("!CallerIDNum: 100")) /\ ret = 0
    /\ excludefilters # <<>>
    /\ Last(excludefilters).regex_filter = Ptr("CallerIDNum: 100")
    /\ includefilters # <<>>

OptionNames == {"action", "name", "header", "method"}

\* the values of the action options of a declaration
ActionArgs(d) ==
    {d.opts[i][2] : i \in {j \in DOMAIN d.opts :
                              d.opts[j][1] = "action" /\ Len(d.opts[j]) = 2}}

\* C10: a successfully compiled advanced declaration is routed to the
\* include set by action(include) and to the exclude set by
\* action(exclude), whether or not the value begins with '!' and wherever
\* action stands among the options; without an action option it is routed
\* to the exclude set if the value begins with '!' and to the include set
\* otherwise.
C10_AdvancedRouting ==
    [][(/\ AddStep /\ ret' = 0
        /\ call'.decl.syntax = "advanced"
        /\ \A i \in DOMAIN call'.decl.opts : call'.decl.opts[i][1] \in OptionNames)
       => LET d == call'.decl
          IN  /\ ActionArgs(d) = {"include"} => ToInclude
              /\ ActionArgs(d) = {"exclude"} => ToExclude
              /\ ActionArgs(d) = {} =>
                    IF ast_begins_with(Str(d.value), "!")
                    THEN ToExclude ELSE ToInclude]_vars

\* action(include) as the last option, with a value that begins with '!'
C10_Witness ==
    /\ Added /\ ret = 0
    /\ call.decl = Adv(<< <<"method", "exact">>, <<"header", "Channel:">>,
                          <<"action", "include">> >>, Ptr("!PJSIP/100"))
    /\ includefilters # <<>>
    /\ Last(includefilters).string_filter = Ptr("PJSIP/100")
    /\ excludefilters = <<>>

(***************************************************************************)
(* The match strategy of the compiled entry                                *)
(***************************************************************************)
\* the entry the add_filter call of this step has linked
NewEntry ==
    IF Len(includefilters') > Len(includefilters)
    THEN Last(includefilters') ELSE Last(excludefilters')

\* an advanced declaration of well-formed options, none of them method
NoMethod(d) ==
    /\ d.syntax = "advanced"
    /\ \A i \in DOMAIN d.opts :
          d.opts[i][1] \in OptionNames \ {"method"}

\* eventfilter(action(include),name(N)) with an empty value
IncludeName(N) ==
    Adv(<< <<"action", "include">>, <<"name", N>> >>, Ptr(""))

\* C11: an advanced declaration without a method option compiles to an
\* entry of match type none, a legacy declaration to one of match type
\* regex; eventfilter(action(include),name(N)) with an empty value returns
\* 0 and adds to the include set exactly one entry with event_name N, no
\* header_name, match type none and no pattern.
C11_AdvancedDefaultNone ==
    [][AddStep =>
        /\ (ret' = 0 /\ NoMethod(call'.decl)) =>
              NewEntry.match_type = FILTER_MATCH_NONE
        /\ (ret' = 0 /\ call'.decl.syntax = "legacy") =>
              NewEntry.match_type = FILTER_MATCH_REGEX
        /\ \A N \in Events :
              call'.decl = IncludeName(N) =>
                  /\ ret' = 0
                  /\ ToInclude
                  /\ NewEntry = [event_filter_entry EXCEPT
                                    !.match_type = FILTER_MATCH_NONE,
                                    !.event_name = Ptr(N)]]_vars

\* name(Newchannel) was added to the include set after an exclude entry
C11_Witness ==
    /\ Added /\ ret = 0 /\ call.decl = IncludeName("Newchannel")
    /\ excludefilters # <<>>
    /\ Last(includefilters).match_type = FILTER_MATCH_NONE
    /\ Last(includefilters).event_name = Ptr("Newchannel")
    /\ Last(includefilters).header_name = NULL

(***************************************************************************)
(* Properties of the per-entry matcher                                     *)
(***************************************************************************)
\* the entry name(N) compiles to: event_name N, type none, nothing else
NameEntry(N) ==
    [event_filter_entry EXCEPT !.match_type = FILTER_MATCH_NONE,
                               !.event_name = Ptr(N)]

\* C12: with an include set holding only an entry with event_name N, match
\* type none and no header_name, and an empty exclude set,
\* should_send_event returns 1 for the event name N with any body, the
\* empty body included, and 0 for every other event name (one that differs
\* in case only included) with any body.
C12_NameMatchesExactly ==
    \A N \in Events :
        (/\ Evaluated
         /\ includefilters = <<NameEntry(N)>>
         /\ excludefilters = <<>>)
        => ret = (IF call.event = N THEN 1 ELSE 0)

\* Newchannel with an empty body passes the entry name(Newchannel)
C12_Witness ==
    /\ Evaluated
    /\ includefilters = <<NameEntry("Newchannel")>> /\ excludefilters = <<>>
    /\ call.event = "Newchannel" /\ call.body = ""
    /\ ret = 1

\* the lines of a body: the longest stretches without CR and LF, each
\* given by its first and last position
LineSpans(body) ==
    {p \in (1..Len(body)) \X (1..Len(body)) :
        /\ p[1] <= p[2]
        /\ \A k \in p[1]..p[2] : CharAt(body, k) \notin {"\r", "\n"}
        /\ p[1] = 1 \/ CharAt(body, p[1] - 1) \in {"\r", "\n"}
        /\ p[2] = Len(body) \/ CharAt(body, p[2] + 1) \in {"\r", "\n"}}

BodyLines ==
    [body \in Bodies |-> {SubSeq(body, p[1], p[2]) : p \in LineSpans(body)}]

\* some line begins with the stored header prefix and what follows it,
\* leading blanks removed, is not empty and satisfies the match strategy
HeaderMatches(entry, event, body) ==
    /\ entry.event_name = NULL \/ event = Str(entry.event_name)
    /\ \E line \in BodyLines[body] :
          /\ ast_begins_with(line, Str(entry.header_name))
          /\ ast_skip_blanks(From(line, Len(Str(entry.header_name)) + 1)) # ""
          /\ match_eventdata(entry,
                ast_skip_blanks(From(line, Len(Str(entry.header_name)) + 1))) # 0

\* C13: an entry with a header_name matches an event exactly when the event
\* name constraint permits and some line of the body begins with the stored
\* prefix (case-sensitive, colon included), has a non-empty value after the
\* prefix and the blanks that follow it, and that value alone satisfies the
\* match strategy. A same-named line with an empty or failing value does
\* not end the search; a body without such a line never matches. Observed
\* through should_send_event on a set pair holding that entry only.
C13_HeaderMatch ==
    Evaluated =>
        /\ (/\ Len(includefilters) = 1 /\ excludefilters = <<>>
            /\ includefilters[1].header_name # NULL)
           => (ret = 1 <=> HeaderMatches(includefilters[1], call.event, call.body))
        /\ (/\ Len(excludefilters) = 1 /\ includefilters = <<>>
            /\ excludefilters[1].header_name # NULL)
           => (ret = 0 <=> HeaderMatches(excludefilters[1], call.event, call.body))

\* the first Channel line fails starts_with Local/, the second satisfies it
C13_Witness ==
    /\ Evaluated /\ includefilters = <<>> /\ Len(excludefilters) = 1
    /\ excludefilters[1].header_name = Ptr("Channel:")
    /\ excludefilters[1].match_type = FILTER_MATCH_STARTS_WITH
    /\ call.body = "Channel: PJSIP/200\r\nChannel: Local/7\r\n"
    /\ ret = 0

(***************************************************************************)
(* The functions the unit tests call directly, applied to inputs of their  *)
(* own (specification SpecFunctions).                                      *)
(***************************************************************************)
Patterns == {"PJSIP/100", "Local/", "100", "0"}

Candidates == {"", "PJSIP/100", "PJSIP/1000", "xPJSIP/100", "Local/7", "100"}

\* entries as add_filter builds them: a compiled regex, a literal pattern
\* for the four string strategies, no pattern for none
MatchEntries ==
    {[event_filter_entry EXCEPT !.regex_filter = Ptr(p)] : p \in Patterns}
    \cup {[event_filter_entry EXCEPT !.match_type = t, !.string_filter = Ptr(p)] :
            t \in {FILTER_MATCH_EXACT, FILTER_MATCH_STARTS_WITH,
                   FILTER_MATCH_ENDS_WITH, FILTER_MATCH_CONTAINS},
            p \in Patterns}
    \cup {[event_filter_entry EXCEPT !.match_type = FILTER_MATCH_NONE]}

MatchEventdata ==
    \E entry \in MatchEntries, eventdata \in Candidates :
        /\ call' = [name |-> "match_eventdata", entry |-> entry,
                    eventdata |-> eventdata]
        /\ ret' = match_eventdata(entry, eventdata)
        /\ UNCHANGED <<includefilters, excludefilters>>
        /\ UNCHANGED moduleVars

\* the bodies ami_body_to_json is given
JsonBodies ==
    { "",
      "Channel: PJSIP/100\r\nCallerIDNum: 100\r\n",
      "ValidHeader: value1\r\nno-separator-here\r\n\r\nChannel:PJSIP/100\r\n",
      "no-separator-here\r\n",
      "Time: 12: 30\r\n",
      "Event: Other\r\nChannel: PJSIP/100\r\n",
      "Channel: PJSIP/100\r\nChannel: Local/7\r\n",
      ": x\r\nKey: \r\n",
      "EntityID: x\r\nSystemName: y\r\nSystemName: z\r\n" }

BodyToJson ==
    \E event \in Events, body \in JsonBodies, system_name \in SystemNames :
        /\ call' = [name |-> "ami_body_to_json", event |-> event,
                    body |-> body, system_name |-> system_name]
        /\ ret' = ami_body_to_json(event, body, eid_default, system_name)
        /\ UNCHANGED <<includefilters, excludefilters>>
        /\ UNCHANGED moduleVars

FunctionsNext == MatchEventdata \/ BodyToJson

SpecFunctions == Init /\ [][FunctionsNext]_vars

Matched == call.name = "match_eventdata"

\* the candidate is some text, then the pattern, then some text
Occurs(pattern, candidate, before, after) ==
    \E i \in before, j \in after :
        /\ i + Len(pattern) + j = Len(candidate)
        /\ candidate = SubSeq(candidate, 1, i) \o pattern
                       \o SubSeq(candidate, Len(candidate) - j + 1, Len(candidate))

\* C14: match_eventdata on a non-regex entry returns 1 exactly when: for
\* exact, the candidate equals the pattern; for starts_with, the candidate
\* is the pattern followed by any text; for ends_with, any text followed by
\* the pattern; for contains, the pattern with any text before and after;
\* for none, always. In particular an exact entry returns 0 for a
\* candidate that extends the pattern.
C14_StringStrategies ==
    (Matched /\ call.entry.match_type # FILTER_MATCH_REGEX) =>
        LET t == call.entry.match_type
            c == call.eventdata
            n == 0..Len(call.eventdata)
        IN  ret = 1 <=>
              CASE t = FILTER_MATCH_EXACT ->
                      c = Str(call.entry.string_filter)
                [] t = FILTER_MATCH_STARTS_WITH ->
                      Occurs(Str(call.entry.string_filter), c, {0}, n)
                [] t = FILTER_MATCH_ENDS_WITH ->
                      Occurs(Str(call.entry.string_filter), c, n, {0})
                [] t = FILTER_MATCH_CONTAINS ->
                      Occurs(Str(call.entry.string_filter), c, n, n)
                [] t = FILTER_MATCH_NONE -> TRUE

\* exact PJSIP/100 against PJSIP/1000
C14_Witness ==
    /\ Matched /\ call.entry.match_type = FILTER_MATCH_EXACT
    /\ call.entry.string_filter = Ptr("PJSIP/100")
    /\ call.eventdata = "PJSIP/1000"
    /\ ret = 0

(***************************************************************************)
(* Properties of the body parser                                           *)
(***************************************************************************)
Parsed == call.name = "ami_body_to_json"

\* the value the record holds for a key
Field(json, key) ==
    json[CHOOSE i \in DOMAIN json : json[i][1] = key][2]

Keys(json) == {json[i][1] : i \in DOMAIN json}

\* the lines of the body that contain ": ", by position
SepLines(body) ==
    {p \in LineSpans(body) : strstr(SubSeq(body, p[1], p[2]), ": ") # 0}

LineKey(body, p) ==
    SubSeq(body, p[1], p[1] + strstr(SubSeq(body, p[1], p[2]), ": ") - 2)

LineValue(body, p) ==
    SubSeq(body, p[1] + strstr(SubSeq(body, p[1], p[2]), ": ") + 1, p[2])

\* the fields set before the body is read
Injected(event, system_name) ==
    [k \in {"Event", "EntityID"}
           \cup (IF system_name = "" THEN {} ELSE {"SystemName"}) |->
        CASE k = "Event" -> event
          [] k = "EntityID" -> eid_default
          [] k = "SystemName" -> system_name]

EventLines(body) == {p \in SepLines(body) : LineKey(body, p) = "Event"}

\* C16 as stated: for every event name and every body the record holds an
\* Event field whose value is the event name given to ami_body_to_json.
C16_EventIsEventName ==
    Parsed => ("Event" \in Keys(ret) /\ Field(ret, "Event") = call.event)

\* C16 amended: the record always holds an Event field; its value is the
\* event name given to ami_body_to_json unless the body has a line named
\* Event, and then it is the value of the last such line.
C16_EventFieldPresent ==
    Parsed =>
        /\ "Event" \in Keys(ret)
        /\ EventLines(call.body) = {} => Field(ret, "Event") = call.event
        /\ \A p \in EventLines(call.body) :
              (\A q \in EventLines(call.body) : q[1] <= p[1])
              => Field(ret, "Event") = LineValue(call.body, p)

\* the body line "Event: Other" has replaced the event name Hangup
C16_Witness ==
    /\ Parsed /\ call.event = "Hangup"
    /\ call.body = "Event: Other\r\nChannel: PJSIP/100\r\n"
    /\ Field(ret, "Event") = "Other"

(***************************************************************************)
(* The hand-over to the broker client (specification SpecModule)           *)
(***************************************************************************)
\* thread t is about to return from a callback whose verdict was send
SendDecided(t) == hooks[t].pc = "cleanup" /\ hooks[t].verdict = 1

\* the callback of thread t made exactly one produce call, with the topic
\* of its snapshot and the event name as key
ProducedOnce(t) ==
    /\ Len(hooks[t].sent) = 1
    /\ hooks[t].sent[1].topic = snapshots[hooks[t].conf].topic
    /\ hooks[t].sent[1].key = Ptr(hooks[t].event)

\* C17 as stated: every callback for which should_send_event returned 1
\* hands the payload to ast_kafka_produce exactly once, with the configured
\* topic and the event name as key.
C17_SendAlwaysProduces ==
    \A t \in Threads : SendDecided(t) => ProducedOnce(t)

\* C17 amended: that holds of the callbacks whose snapshot has a non-empty
\* topic; with an empty topic the callback returns without a produce call.
C17_SendProducesIfTopic ==
    \A t \in Threads :
        SendDecided(t) =>
            IF snapshots[hooks[t].conf].topic # ""
            THEN ProducedOnce(t)
            ELSE hooks[t].sent = <<>>

\* Newchannel was handed over once, with the topic events and itself as key
C17_Witness ==
    \E t \in Threads :
        /\ SendDecided(t) /\ hooks[t].event = "Newchannel"
        /\ Len(hooks[t].sent) = 1
        /\ hooks[t].sent[1].topic = "events"
        /\ hooks[t].sent[1].key = Ptr("Newchannel")
        /\ snapshots[hooks[t].conf].includefilters # <<>>

(***************************************************************************)
(* Reloading the same declarations (specification SpecModule)              *)
(***************************************************************************)
\* this step publishes a snapshot built from the list of declarations the
\* snapshot published before it was built from
RepublishedSame ==
    /\ confs # 0 /\ confs' # 0 /\ confs' # confs
    /\ snapshots'[confs'].file.filters = snapshots[confs].file.filters

\* C18: a reload that compiles the list of declarations of the published
\* snapshot again publishes sets with the same entries in the same order
\* (the new snapshot starts from empty containers, nothing of the old one
\* is carried over), so should_send_event gives the same verdict on the
\* old and on the new sets for every event name and body.
C18_ReloadIdempotent ==
    [][RepublishedSame =>
        /\ snapshots'[confs'].includefilters = snapshots[confs].includefilters
        /\ snapshots'[confs'].excludefilters = snapshots[confs].excludefilters
        /\ \A event \in Events, body \in Bodies :
              should_send_event(snapshots'[confs'].includefilters,
                                snapshots'[confs'].excludefilters, event, body)
              = should_send_event(snapshots[confs].includefilters,
                                  snapshots[confs].excludefilters, event, body)]_vars

\* a callback still holds the old snapshot while the one published by the
\* reload of the same file shows the same include and exclude entries
C18_Witness ==
    \E t \in Threads :
        /\ Holding(t) /\ confs # 0 /\ hooks[t].conf # confs
        /\ snapshots[confs].file = snapshots[hooks[t].conf].file
        /\ snapshots[confs].includefilters # <<>>
        /\ snapshots[confs].excludefilters # <<>>
        /\ snapshots[confs].includefilters = snapshots[hooks[t].conf].includefilters
        /\ snapshots[confs].excludefilters = snapshots[hooks[t].conf].excludefilters

(***************************************************************************)
(* Declarations the compiler rejects                                       *)
(***************************************************************************)
\* the values of the method options of a declaration
MethodArgs(d) ==
    {IF Len(d.opts[i]) = 2 THEN d.opts[i][2] ELSE "" :
        i \in {j \in DOMAIN d.opts : d.opts[j][1] = "method"}}

\* an advanced declaration with method(none) or without method option
ResolvedNone(d) == d.syntax = "advanced" /\ MethodArgs(d) \subseteq {"none"}

NoOption(d) == d.opts = <<>>

\* a method option is given and none of them is method(none)
ResolvedNotNone(d) == MethodArgs(d) # {} /\ "none" \notin MethodArgs(d)

\* the pattern, what the value leaves after one leading '!', is empty
EmptyPattern(d) == d.value = NULL \/ AfterBang(Str(d.value)) = ""

\* options named exactly action, name, header or method, none of them a
\* name or a header option
NoNameNoHeader(d) ==
    \A i \in DOMAIN d.opts : d.opts[i][1] \in OptionNames \ {"name", "header"}

\* a name or header option with an empty value: name() or header()
EmptyNameOrHeader(d) ==
    \E i \in DOMAIN d.opts :
        /\ d.opts[i][1] \in {"name", "header"}
        /\ Len(d.opts[i]) = 2 /\ d.opts[i][2] = ""

\* C20: an advanced declaration fails to compile and adds no entry when
\* its parenthesis list holds no option, when its strategy is not none and
\* its pattern is empty, when its strategy is none and it has neither a
\* name nor a header option, and when a name or header option has an empty
\* value.
C20_AdvancedRejected ==
    [][(/\ AddStep /\ call'.decl.syntax = "advanced"
        /\ LET d == call'.decl
           IN  \/ NoOption(d)
               \/ ResolvedNotNone(d) /\ EmptyPattern(d)
               \/ ResolvedNone(d) /\ NoNameNoHeader(d)
               \/ EmptyNameOrHeader(d))
       => (ret' = -1 /\ NoEntryAdded)]_vars

\* header() with method(none) was rejected while both sets hold entries
C20_Witness ==
    /\ Added /\ ret = -1
    /\ call.decl = Adv(<< <<"header", "">>, <<"method", "none">> >>, Ptr(""))
    /\ includefilters # <<>> /\ excludefilters # <<>>

(***************************************************************************)
(* Option tokens of another name                                           *)
(***************************************************************************)
\* an option token whose name is not exactly action, name, header or method
UnknownOption(d) ==
    \E i \in DOMAIN d.opts : d.opts[i][1] \notin OptionNames

\* C21: an advanced declaration with an option token whose name is not
\* exactly one of action, name, header, method fails to compile, tokens
\* that only begin with one of these names included.
C21_UnknownOptionRejected ==
    [][(/\ AddStep /\ call'.decl.syntax = "advanced"
        /\ UnknownOption(call'.decl))
       => (ret' = -1 /\ NoEntryAdded)]_vars

(***************************************************************************)
(* The stored header name                                                  *)
(***************************************************************************)
\* the names the header options of a declaration give
HeaderArgs(d) ==
    {d.opts[i][2] : i \in {j \in DOMAIN d.opts :
                              d.opts[j][1] = "header" /\ Len(d.opts[j]) = 2}}

\* the declaration with a colon appended to each header name without one
WithColon(d) ==
    [d EXCEPT !.opts =
        [i \in DOMAIN d.opts |->
            IF /\ d.opts[i][1] = "header" /\ Len(d.opts[i]) = 2
               /\ ~ast_ends_with(d.opts[i][2], ":")
            THEN <<"header", d.opts[i][2] \o ":">>
            ELSE d.opts[i]]]

\* the entries of both sets that have a header_name
WithHeader(includefilters_, excludefilters_) ==
    {includefilters_[i] : i \in {j \in DOMAIN includefilters_ :
                                    includefilters_[j].header_name # NULL}}
    \cup {excludefilters_[i] : i \in {j \in DOMAIN excludefilters_ :
                                    excludefilters_[j].header_name # NULL}}

\* the advanced declarations of the model with a header option, their
\* options named exactly action, name, header or method
HeaderDeclarations ==
    {d \in Declarations :
        /\ d.syntax = "advanced" /\ HeaderArgs(d) # {}
        /\ \A i \in DOMAIN d.opts : d.opts[i][1] \in OptionNames}

\* compile_filter on each of them (own) and on the same declaration with
\* the colon appended (twin), computed once
Twins ==
    [d \in HeaderDeclarations |->
        [own  |-> Compiled[<<Ptr(Criteria(d)), d.value>>],
         twin |-> compile_filter(Ptr(Criteria(WithColon(d))), d.value)]]

\* the entry of d and the entry of its twin match the same events, computed
\* once for each declaration that compiles with and without the colon
SameMatch ==
    [d \in {x \in HeaderDeclarations :
                Twins[x].own.ret = 0 /\ Twins[x].twin.ret = 0} |->
        \A event \in Events, body \in Bodies :
            filter_cmp_fn(Twins[d].own.entry, event, body)
                = filter_cmp_fn(Twins[d].twin.entry, event, body)]

\* C22: header(h) with h not ending in ':' compiles to the entry that
\* header(h:) compiles to, with header_name "h:" stored, so that both give
\* the same match on every event; a stored header_name is the name as
\* written when it ends with ':' and the name with one ':' appended
\* otherwise.
C22_HeaderNormalized ==
    [][(AddStep /\ ret' = 0 /\ call'.decl \in HeaderDeclarations)
       => LET d == call'.decl
              h == CHOOSE x \in HeaderArgs(d) : TRUE
          IN  /\ NewEntry.header_name =
                    Ptr(IF ast_ends_with(h, ":") THEN h ELSE h \o ":")
              /\ Twins[d].own.entry = NewEntry
              /\ Twins[d].twin.ret = 0 /\ Twins[d].twin.entry = NewEntry
              /\ d \in DOMAIN SameMatch /\ SameMatch[d]
              /\ \A e \in WithHeader(includefilters', excludefilters') :
                    ast_ends_with(Str(e.header_name), ":")]_vars

\* header(Channel) and header(Channel:) were both compiled, to equal entries
C22_Witness ==
    /\ Added /\ ret = 0
    /\ call.decl = Adv(<< <<"action", "exclude">>, <<"header", "Channel">>,
                          <<"method", "starts_with">> >>, Ptr("Local/"))
    /\ Len(excludefilters) = 2
    /\ excludefilters[1] = excludefilters[2]
    /\ excludefilters[2].header_name = Ptr("Channel:")

(***************************************************************************)
(* A header line with an empty value before one that matches               *)
(***************************************************************************)
\* the lines of each body of the model by their positions, computed once
BodySpans ==
    [body \in {b \in Bodies : b # ""} |-> LineSpans(body)]

\* the lines of the body that begin with the header prefix of the entry
NamedSpans(entry, body) ==
    {p \in BodySpans[body] :
        ast_begins_with(SubSeq(body, p[1], p[2]), Str(entry.header_name))}

\* what follows the header prefix on the line, leading blanks removed
HeaderValue(entry, body, p) ==
    ast_skip_blanks(From(SubSeq(body, p[1], p[2]), Len(Str(entry.header_name)) + 1))

\* the first line of the body with the header prefix has an empty value
FirstValueEmpty(entry, body) ==
    /\ body # ""
    /\ \E p \in NamedSpans(entry, body) :
          /\ \A q \in NamedSpans(entry, body) : p[1] <= q[1]
          /\ HeaderValue(entry, body, p) = ""

\* a line with the header prefix has a non-empty value that satisfies the
\* match strategy of the entry
SomeValueSatisfies(entry, body) ==
    \E p \in NamedSpans(entry, body) :
        /\ HeaderValue(entry, body, p) # ""
        /\ match_eventdata(entry, HeaderValue(entry, body, p)) # 0

\* should_send_event was called on a set pair holding this entry only, an
\* entry with a header_name whose event name constraint permits the event
OnlyEntry(entry) ==
    /\ Evaluated
    /\ \/ includefilters = <<entry>> /\ excludefilters = <<>>
       \/ excludefilters = <<entry>> /\ includefilters = <<>>
    /\ entry.header_name # NULL
    /\ entry.event_name = NULL \/ call.event = Str(entry.event_name)

\* the verdict says that the only entry matched the event
VerdictMatch == IF includefilters # <<>> THEN ret = 1 ELSE ret = 0

\* C23 as stated: the header search stops at the first line with the header
\* prefix; when that line's value is empty the entry does not match, even
\* if a later line with the same header has a value that satisfies the
\* strategy.
C23_StopsAtFirstHeaderLine ==
    \A entry \in Entries :
        (OnlyEntry(entry) /\ FirstValueEmpty(entry, call.body)) => ~VerdictMatch

\* C23 amended: a line with the header prefix and an empty value is skipped;
\* the entry matches exactly when a later line with the same header has a
\* non-empty value that satisfies the strategy.
C23_SkipsEmptyHeaderLine ==
    \A entry \in Entries :
        (OnlyEntry(entry) /\ FirstValueEmpty(entry, call.body))
            => (VerdictMatch <=> SomeValueSatisfies(entry, call.body))

\* "Channel: " is followed by "Channel: Local/7", which the exclude entry
\* header(Channel),method(starts_with) = Local/ matches
C23_Witness ==
    /\ Evaluated /\ includefilters = <<>> /\ Len(excludefilters) = 1
    /\ excludefilters[1].header_name = Ptr("Channel:")
    /\ excludefilters[1].match_type = FILTER_MATCH_STARTS_WITH
    /\ call.body = "Channel: \r\nChannel: Local/7\r\n"
    /\ FirstValueEmpty(excludefilters[1], call.body)
    /\ ret = 0

(***************************************************************************)
(* Several body lines of one name (specification SpecFunctions)            *)
(***************************************************************************)
\* the last line of the body that contains ": " and has this name
LastNamed(body, key) ==
    CHOOSE p \in SepLines(body) :
        /\ LineKey(body, p) = key
        /\ \A q \in SepLines(body) : LineKey(body, q) = key => q[1] <= p[1]

\* C24: the keys of the record are unique; the record holds for every name
\* of a body line the value of the last line of that name, also when the
\* name is Event, EntityID or SystemName: these fields are set before the
\* body is read, and a body line of that name replaces their value.
C24_LastWriteWins ==
    Parsed =>
        /\ \A i, j \in DOMAIN ret : ret[i][1] = ret[j][1] => i = j
        /\ ret[1][1] = "Event" /\ ret[2][1] = "EntityID"
        /\ call.system_name # "" => ret[3][1] = "SystemName"
        /\ \A p \in SepLines(call.body) :
              Field(ret, LineKey(call.body, p))
                  = LineValue(call.body, LastNamed(call.body, LineKey(call.body, p)))

\* EntityID and SystemName were injected and replaced, SystemName twice
C24_Witness ==
    /\ Parsed /\ call.system_name = "pbx1"
    /\ call.body = "EntityID: x\r\nSystemName: y\r\nSystemName: z\r\n"
    /\ Len(ret) = 3
    /\ Field(ret, "EntityID") = "x"
    /\ Field(ret, "SystemName") = "z"

(***************************************************************************)
(* The payload of the raw output mode (specification SpecModule)           *)
(***************************************************************************)
\* the callback of thread t has handed a payload over in ami format
ProducedRaw(t) ==
    /\ hooks[t].pc = "cleanup" /\ hooks[t].sent # <<>>
    /\ snapshots[hooks[t].conf].format = AMI_KAFKA_FORMAT_AMI

InCallback(t) == hooks[t].pc # "idle"

\* the callback of thread t has reached a return statement
Returning(t) == hooks[t].pc = "cleanup"

\* the callback of thread t must not produce: it holds no configuration,
\* or a disabled one, or should_send_event returned 0
MustNotProduce(t) ==
    \/ hooks[t].conf = 0
    \/ snapshots[hooks[t].conf].enabled = 0
    \/ hooks[t].verdict = 0

\* C26: every callback returns 0; it calls ast_kafka_produce at most once,
\* whatever the call returns, and not at all when it holds no
\* configuration, when enabled is false (also after a reload that disabled
\* the module while the hook stays registered) or when should_send_event
\* returned 0; a payload is built and handed over only after
\* should_send_event returned 1.
C26_CallbackProducesAtMostOnce ==
    \A t \in Threads :
        InCallback(t) =>
            /\ Returning(t) <=> hooks[t].ret = 0
            /\ ~Returning(t) => hooks[t].ret = -1
            /\ Len(hooks[t].sent) <= 1
            /\ MustNotProduce(t) => hooks[t].sent = <<>>
            /\ hooks[t].sent # <<>> =>
                  /\ hooks[t].verdict = 1 /\ Returning(t)
                  /\ hooks[t].sent[1].res \in ProduceResults

\* a reload has disabled the module, the hook is still registered and a
\* callback returns 0 without having produced
C26_Witness ==
    \E t \in Threads :
        /\ registered /\ Returning(t) /\ hooks[t].ret = 0
        /\ hooks[t].conf = confs /\ snapshots[confs].enabled = 0
        /\ hooks[t].sent = <<>>

(***************************************************************************)
(* Concurrent callers of should_send_event and ami_body_to_json            *)
(* (specification SpecEvaluators). Each evaluator is a thread that calls   *)
(* should_send_event on the shared containers and, on a send verdict,      *)
(* ami_body_to_json on the same body, as ami_hook_callback does. The       *)
(* containers live in includefilters and excludefilters; call holds the    *)
(* evaluators' stacks: the caller's body buffer, the ast_strdupa copy and  *)
(* the locals of should_send_event. One step runs filter_cmp_fn on one     *)
(* entry, so the traversals of different threads interleave entry by       *)
(* entry (the container mutex only makes the interleaving coarser).        *)
(***************************************************************************)
MaxEvaluators == 2

Evaluators == 1..MaxEvaluators

\* the entry a declaration compiles to
EntryOf(d) == Compiled[<<Ptr(Criteria(d)), d.value>>].entry

\* the container pairs the evaluators share
EvalSets ==
    { [includefilters |-> << EntryOf(Legacy(Ptr("Channel: PJSIP/"))) >>,
       excludefilters |-> << EntryOf(Legacy(Ptr("!CallerIDNum: 100"))) >>],
      [includefilters |-> << >>,
       excludefilters |->
           << EntryOf(Adv(<< <<"action", "exclude">>, <<"header", "Channel">>,
                             <<"method", "starts_with">> >>, Ptr("Local/"))),
              EntryOf(Adv(<< <<"name", "Hangup">> >>, Ptr("!"))) >>],
      [includefilters |->
           << EntryOf(Adv(<< <<"method", "exact">>, <<"header", "Channel:">>,
                             <<"action", "include">> >>, Ptr("!PJSIP/100"))),
              EntryOf(Adv(<< <<"action", "include">>, <<"name", "Newchannel">> >>,
                          Ptr(""))) >>,
       excludefilters |-> << >>] }

EvalEvents == {"Newchannel", "Hangup"}

EvalBodies ==
    {"Channel: PJSIP/100\r\nCallerIDNum: 100\r\n", "Channel: Local/7\r\n"}

\* flags of both ao2_callback_data calls: no OBJ_UNLINK, so a matched entry
\* stays linked
ao2_callback_flags == {"OBJ_NODATA"}

\* the container after the callback ran on entry i with the given result
ao2_callback_container(container, flags, i, match) ==
    IF "OBJ_UNLINK" \in flags /\ match # 0
    THEN SubSeq(container, 1, i - 1) \o SubSeq(container, i + 1, Len(container))
    ELSE container

\* Variant of ast_strdupa that hands back the source buffer itself.
ast_strdupa_inplace(mem, src) == [mem |-> mem, p |-> src]

\* ast_strdupa(s): a new buffer on the caller's stack holding the text of s
ast_strdupa(mem, src) == [mem |-> [mem EXCEPT !.copy = mem[src]], p |-> "copy"]

\* what a buffer reads as once strtok_r has returned its first token: the
\* delimiter after the token is overwritten with a NUL
strtok_buffer(text, delims) ==
    LET tokens == Tokens(text, delims)
    IN  IF tokens = <<>> THEN text
        ELSE SubSeq(text, 1, strstr(text, tokens[1]) + Len(tokens[1]) - 1)

\* the buffers after filter_cmp_fn ran: only the header search writes, and
\* it writes to its duplicate
filter_cmp_fn_buffers(filter_entry, event, mem) ==
    IF filter_entry.event_name # NULL /\ event # Str(filter_entry.event_name)
    THEN mem
    ELSE IF filter_entry.header_name = NULL
    THEN mem
    ELSE LET dup == ast_strdupa(mem, "body")
         IN  [dup.mem EXCEPT ![dup.p] = strtok_buffer(dup.mem[dup.p], {"\r", "\n"})]

\* the buffers after ami_body_to_json ran: strtok_r and *sep = '\0' write to
\* the duplicate
ami_body_to_json_buffers(mem) ==
    LET dup == ast_strdupa(mem, "body")
        line == strtok_buffer(dup.mem[dup.p], {"\r", "\n"})
        sep == strstr(line, ": ")
    IN  [dup.mem EXCEPT ![dup.p] = IF Tokens(line, {"\r", "\n"}) # <<>> /\ sep # 0
                                   THEN SubSeq(line, 1, sep - 1)
                                   ELSE line]

IdleEval ==
    [pc |-> "idle", event |-> "", given |-> "",
     mem |-> [body |-> "", copy |-> ""],
     num_include |-> 0, num_exclude |-> 0, list |-> "none", i |-> 0,
     result |-> 0, verdict |-> -1, json |-> NULL]

\* the containers are built and published before any evaluator runs
EvalSetup ==
    /\ call.name = "none"
    /\ \E s \in EvalSets :
          /\ includefilters' = s.includefilters
          /\ excludefilters' = s.excludefilters
          /\ call' = [name |-> "evaluations", sets |-> s,
                      evals |-> [e \in Evaluators |-> IdleEval]]
    /\ UNCHANGED ret
    /\ UNCHANGED moduleVars

\* should_send_event up to the first traversal: the counts are read
EvalCall(e) ==
    /\ call.name = "evaluations"
    /\ call.evals[e].pc = "idle"
    /\ \E event \in EvalEvents, body \in EvalBodies :
          LET num_include == ao2_container_count(includefilters)
              num_exclude == ao2_container_count(excludefilters)
              v == [IdleEval EXCEPT !.event = event, !.given = body,
                                    !.mem = [body |-> body, copy |-> ""],
                                    !.num_include = num_include,
                                    !.num_exclude = num_exclude]
          IN  call' = [call EXCEPT !.evals[e] =
                  IF num_include = 0 /\ num_exclude = 0
                  THEN [v EXCEPT !.verdict = 1, !.pc = "json"]
                  ELSE [v EXCEPT !.pc = "traverse", !.i = 1,
                                 !.list = IF num_include # 0 THEN "include"
                                          ELSE "exclude"]]
    /\ UNCHANGED <<includefilters, excludefilters, ret>>
    /\ UNCHANGED moduleVars

\* ao2_callback_data: filter_cmp_fn runs on the next entry of the container
\* being traversed, or the traversal ends
EvalCallback(e) ==
    /\ call.name = "evaluations"
    /\ call.evals[e].pc = "traverse"
    /\ LET v == call.evals[e]
           container == IF v.list = "include" THEN includefilters
                        ELSE excludefilters
       IN  IF v.i > Len(container)
           THEN /\ call' = [call EXCEPT !.evals[e].pc = "traversed"]
                /\ UNCHANGED <<includefilters, excludefilters>>
           ELSE LET match == filter_cmp_fn(container[v.i], v.event, v.mem.body)
                    after == ao2_callback_container(container, ao2_callback_flags,
                                                    v.i, match)
                IN  /\ call' = [call EXCEPT !.evals[e] =
                           [v EXCEPT !.result = match,
                                     !.mem = filter_cmp_fn_buffers(container[v.i],
                                                                   v.event, v.mem),
                                     !.i = v.i + 1,
                                     !.pc = IF match # 0 THEN "traversed"
                                            ELSE "traverse"]]
                    /\ includefilters' = IF v.list = "include" THEN after
                                         ELSE includefilters
                    /\ excludefilters' = IF v.list = "exclude" THEN after
                                         ELSE excludefilters
    /\ UNCHANGED ret
    /\ UNCHANGED moduleVars

\* should_send_event after a traversal: a return statement, or the exclude
\* traversal that follows an include match
EvalDecide(e) ==
    /\ call.name = "evaluations"
    /\ call.evals[e].pc = "traversed"
    /\ LET v == call.evals[e]
           returned(verdict) == [v EXCEPT !.verdict = verdict,
                                          !.pc = IF verdict # 0 THEN "json"
                                                 ELSE "done"]
       IN  call' = [call EXCEPT !.evals[e] =
               IF v.num_exclude = 0 THEN returned(v.result)
               ELSE IF v.num_include = 0 \/ v.list = "exclude"
               THEN returned(IF v.result = 0 THEN 1 ELSE 0)
               ELSE IF v.result # 0
               THEN [v EXCEPT !.result = 0, !.list = "exclude", !.i = 1,
                              !.pc = "traverse"]
               ELSE returned(0)]
    /\ UNCHANGED <<includefilters, excludefilters, ret>>
    /\ UNCHANGED moduleVars

\* ami_body_to_json on the body should_send_event was called with
EvalJson(e) ==
    /\ call.name = "evaluations"
    /\ call.evals[e].pc = "json"
    /\ LET v == call.evals[e]
       IN  call' = [call EXCEPT !.evals[e] =
               [v EXCEPT !.json = Ptr(ami_body_to_json(v.event, v.mem.body,
                                          eid_default, ast_config_AST_SYSTEM_NAME)),
                         !.mem = ami_body_to_json_buffers(v.mem),
                         !.pc = "done"]]
    /\ UNCHANGED <<includefilters, excludefilters, ret>>
    /\ UNCHANGED moduleVars

\* the caller is done with the verdict and the object
EvalReturn(e) ==
    /\ call.name = "evaluations"
    /\ call.evals[e].pc = "done"
    /\ call' = [call EXCEPT !.evals[e] = IdleEval]
    /\ UNCHANGED <<includefilters, excludefilters, ret>>
    /\ UNCHANGED moduleVars

EvaluatorsNext ==
    \/ EvalSetup
    \/ \E e \in Evaluators : EvalCall(e)
    \/ \E e \in Evaluators : EvalCallback(e)
    \/ \E e \in Evaluators : EvalDecide(e)
    \/ \E e \in Evaluators : EvalJson(e)
    \/ \E e \in Evaluators : EvalReturn(e)

SpecEvaluators == Init /\ [][EvaluatorsNext]_vars

\* the verdict of one should_send_event call run alone on the published
\* containers, for each call the evaluators can make
SequentialVerdict ==
    [k \in {<<s, event, body>> : s \in EvalSets, event \in EvalEvents,
                                 body \in EvalBodies} |->
        should_send_event(k[1].includefilters, k[1].excludefilters, k[2], k[3])]

\* C27: should_send_event and ami_body_to_json leave their inputs alone:
\* whatever the other evaluators do, both containers hold the entries they
\* were published with, the caller's body text is the text the call was
\* given (the lines are split in a duplicate), every verdict is the verdict
\* of the same call run alone and every JSON object is the object built
\* from the given body.
C27_EvaluationLeavesInputs ==
    call.name = "evaluations" =>
        /\ includefilters = call.sets.includefilters
        /\ excludefilters = call.sets.excludefilters
        /\ \A e \in Evaluators :
              LET v == call.evals[e]
              IN  /\ v.mem.body = v.given
                  /\ v.verdict # -1 =>
                        v.verdict = SequentialVerdict[<<call.sets, v.event, v.given>>]
                  /\ v.json # NULL =>
                        Str(v.json) = ami_body_to_json(v.event, v.given, eid_default,
                                                       ast_config_AST_SYSTEM_NAME)

\* two evaluators are inside the traversal of the same exclude container,
\* both after a header search that split its duplicate, with different
\* events; a third state of the same run has one of them return 1
C27_Witness ==
    /\ call.name = "evaluations"
    /\ \E e1, e2 \in Evaluators :
          /\ e1 # e2
          /\ call.evals[e1].pc = "traverse" /\ call.evals[e1].i = 2
          /\ call.evals[e2].pc = "done" /\ call.evals[e2].verdict = 1
          /\ call.evals[e2].json # NULL
          /\ call.evals[e1].event # call.evals[e2].event
          /\ call.evals[e1].mem.copy = "Channel: PJSIP/100"
          /\ call.evals[e2].mem.copy = "Channel"
          /\ call.evals[e1].given = call.evals[e2].given
          /\ includefilters = << >> /\ Len(excludefilters) = 2

(***************************************************************************)
(* Unloading (specification SpecModule)                                    *)
(***************************************************************************)
\* this step is unload_module releasing the cached producer and the
\* published configuration
ReleaseStep == loader.pc = "unload" /\ loader'.pc = "idle"

\* this step is a call of ast_kafka_produce by thread t
ProduceStep(t) == Len(hooks'[t].sent) > Len(hooks[t].sent)

\* this step is thread t leaving the check of its configuration, which is
\* absent
AbsentConfStep(t) ==
    hooks[t].pc = "check" /\ hooks'[t].pc # "check" /\ hooks[t].conf = 0

\* this step is thread t reading cached_producer, which is absent
AbsentProducerStep(t) ==
    /\ hooks[t].pc = "produce" /\ hooks'[t].pc # "produce"
    /\ ~ast_strlen_zero(Ptr(snapshots[hooks[t].conf].topic))
    /\ cached_producer = NULL

\* thread t returns 0 and has produced nothing
ReturnsUnproduced(t) ==
    hooks'[t].pc = "cleanup" /\ hooks'[t].ret = 0 /\ hooks'[t].sent = <<>>

\* C28: unload_module releases the cached producer and the published
\* configuration only after the hook is unregistered and no callback is
\* running; ast_kafka_produce is called only while the hook is registered
\* and both are present, so never after unload released them; a callback
\* that finds no configuration, or no cached producer, returns 0 and has
\* produced nothing.
C28_UnregisterBeforeRelease ==
    [][/\ ReleaseStep =>
            /\ ~registered
            /\ \A t \in Threads : hooks[t].pc = "idle"
            /\ cached_producer' = NULL /\ confs' = 0
       /\ \A t \in Threads :
            /\ ProduceStep(t) =>
                  /\ registered /\ loader.pc # "unload"
                  /\ confs # 0 /\ cached_producer # NULL
            /\ AbsentConfStep(t) => ReturnsUnproduced(t)
            /\ AbsentProducerStep(t) => ReturnsUnproduced(t)]_vars

\* unload_module has unregistered the hook of a module that was producing
\* and has not yet released the producer and the configuration; no callback
\* is running
C28_Witness ==
    /\ loader.pc = "unload" /\ ~registered
    /\ cached_producer # NULL /\ confs # 0
    /\ snapshots[confs].enabled = 1 /\ snapshots[confs].topic # ""
    /\ \A t \in Threads : hooks[t].pc = "idle"

(***************************************************************************)
(* The producer a callback publishes through (specification SpecModule)    *)
(***************************************************************************)
\* thread t has called ast_kafka_produce
Produced(t) == hooks[t].sent # <<>>

\* the produce call of thread t went through the producer of the
\* connection its snapshot names, with that snapshot's topic
PairedWithSnapshot(t) ==
    /\ hooks[t].sent[1].topic = snapshots[hooks[t].conf].topic
    /\ Ptr(hooks[t].sent[1].producer)
          = ast_kafka_get_producer(snapshots[hooks[t].conf].connection)

\* C29: in every interleaving of reload_module with ami_hook_callback, each
\* produce call pairs the topic of a snapshot with the producer obtained
\* for the connection that snapshot names.
C29_ProducerOfSnapshot ==
    \A t \in Threads : Produced(t) => PairedWithSnapshot(t)

(***************************************************************************)
(* When the hook is registered (specification SpecModule)                  *)
(***************************************************************************)
\* this step is load_module calling ast_manager_register_hook
RegisterStep == ~registered /\ registered'

\* this step ends a load_module call
LoadModuleEnds == loader.kind = "load" /\ loader.pc # "idle" /\ loader'.pc = "idle"

\* this step ends the load_config call of a reload_module by a failure
ReloadConfigFails ==
    loader.kind = "reload" /\ loader.pc = "options" /\ loader'.pc = "idle"

\* this step belongs to a reload_module call
ReloadStep == loader.kind = "reload" /\ loader.pc # "idle"

\* C30: after every step the hook is registered only if a configuration is
\* published and a producer is cached. load_module registers the hook only
\* at its end, with the loaded configuration published and enabled and the
\* producer of its connection cached; a load_module that ends otherwise
\* has declined: no hook, no published configuration. A reload whose
\* configuration load fails leaves the cached producer and the published
\* configuration as they were, and no step of a reload clears the cached
\* producer.
C30_HookOnlyWithConfAndProducer ==
    [][/\ registered' => (confs' # 0 /\ cached_producer' # NULL)
       /\ RegisterStep =>
            /\ LoadModuleEnds /\ loader.pc = "after"
            /\ confs' = confs /\ confs # 0
            /\ snapshots[confs].published /\ snapshots[confs].enabled = 1
            /\ cached_producer' = ast_kafka_get_producer(snapshots[confs].connection)
       /\ (LoadModuleEnds /\ ~RegisterStep) => (~registered' /\ confs' = 0)
       /\ ReloadConfigFails =>
            (cached_producer' = cached_producer /\ confs' = confs /\ registered')
       /\ ReloadStep => (cached_producer # NULL /\ cached_producer' # NULL)]_vars

\* the hook is registered after a reload whose producer lookup failed: the
\* published configuration names a connection without producer and the
\* producer cached by load_module is still there
C30_Witness ==
    /\ registered /\ loader.pc = "idle"
    /\ confs # 0 /\ ast_kafka_get_producer(snapshots[confs].connection) = NULL
    /\ cached_producer = Ptr("main")

====
